---- MODULE Spec2Model ----
(***************************************************************************)
(* wordReportCheck: the grading reconciler (scoring/deepseek_client.py,    *)
(* scoring/kimi_client.py), the LLM-assisted and the local content         *)
(* segmenters, and the template-positional extractor                       *)
(* (parsers/docx_parser.py), as state machines.                            *)
(*                                                                         *)
(* The chat-completion service is the environment: every call either       *)
(* fails (_safe_chat_create returns None) or returns a text, and the text  *)
(* is drawn from the shapes the parsing code tells apart.                  *)
(***************************************************************************)
EXTENDS Integers, Sequences, FiniteSets, TLC

\* ------------------------------------------------------------------ bounds
\* Number of items handed to score_items.
MaxItems == 2
\* Number of elements of a JSON array answered by the model.
MaxResp == 2

\* ------------------------------------------------------------ value domains
\* ReportItem.id of the i-th item, as the segmenters number them.
IdNames == <<"Q1", "Q2", "Q3", "Q4", "Q5", "Q6">>

QId(i) == IdNames[i]

\* dict.get("id") of a model object: the key is absent, the value is falsy
\* (null or ""), the id of an input item, or an id no input item has.
IdAbsent == "<absent>"

IdNull == "<null>"

IdForeign == "QX"

RespIds(n) == {IdAbsent, IdNull, IdForeign} \cup {QId(i) : i \in 1..n}

\* A JSON value under the key "score": t is its Python type, v its value
\* (a float's v is in tenths; "nanfloat" is NaN or an infinity, which
\* json.loads accepts).
ScoreNone == [t |-> "none", v |-> 0]

ScoreInt == [t |-> "int", v |-> 90]

ScoreFloat == [t |-> "float", v |-> 875]

ScoreNaN == [t |-> "nanfloat", v |-> 0]

ScoreStr == [t |-> "str", v |-> 90]

ScoreBool == [t |-> "bool", v |-> 1]

\* A JSON value under the key "feedback": absent/null, or a string.
FbNone == "<None>"

FbBlank == "  "

FbOk == "ok"

\* A feedback that is no string (the number 5); str() makes it "5".
FbNumber == "<5>"

\* The (score, feedback) pairs an object of a per-item answer is drawn with:
\* every kind of score and every kind of feedback occurs.
Payloads ==
  { <<ScoreInt, FbOk>>, <<ScoreFloat, FbOk>>, <<ScoreNaN, FbOk>>,
    <<ScoreNone, FbOk>>, <<ScoreStr, FbOk>>, <<ScoreBool, FbOk>>,
    <<ScoreInt, FbNone>>, <<ScoreInt, FbBlank>>, <<ScoreInt, "">>,
    <<ScoreNone, FbNone>>, <<ScoreInt, FbNumber>> }

\* The pairs an element of a batch array is drawn with.
BatchPayloads ==
  { <<ScoreInt, FbOk>>, <<ScoreFloat, FbOk>>, <<ScoreNaN, FbOk>>,
    <<ScoreStr, FbOk>>, <<ScoreBool, FbNumber>>, <<ScoreInt, FbBlank>>,
    <<ScoreNone, FbNone>> }

\* An element of a parsed JSON array (or the parsed JSON object of a per-item
\* answer): a dict with the three keys, or something that is not a dict.
NonDict == [isdict |-> FALSE, id |-> IdAbsent, score |-> ScoreNone, fb |-> FbNone]

EmptyObj == [isdict |-> TRUE, id |-> IdAbsent, score |-> ScoreNone, fb |-> FbNone]

Obj(i, p) == [isdict |-> TRUE, id |-> i, score |-> p[1], fb |-> p[2]]

\* The elements of a batch array: every id with every batch pair.
Elems(n) == { Obj(i, p) : i \in RespIds(n), p \in BatchPayloads } \cup {NonDict}

\* The objects of a per-item answer: every id on a well-formed object, and
\* every pair on an object that names no id.
Objs(n) ==
  { Obj(i, <<ScoreInt, FbOk>>) : i \in RespIds(n) }
  \cup { Obj(IdAbsent, p) : p \in Payloads }

SeqsUpTo(S, k) == UNION { [1..m -> S] : m \in 0..k }

\* message.content of a successful call, by what json.loads and
\* _extract_json_block make of it:
\*   "empty"    None or "": nothing to load, no block
\*   "garbage"  text with no bracket: json.loads raises, no block
\*   "badblock" json.loads raises, a bracketed block is found, loading it raises
\*   "scalar"   a JSON number or string
\*   "dict"     a JSON object (directly, or as the extracted block)
\*   "list"     a JSON array (directly, or as the extracted block)
NoContent == [kind |-> "empty", elems |-> <<>>, obj |-> EmptyObj]

BatchContents(n) ==
  { [kind |-> k, elems |-> <<>>, obj |-> EmptyObj] :
      k \in {"empty", "garbage", "badblock", "scalar", "dict"} }
  \cup { [kind |-> "list", elems |-> e, obj |-> EmptyObj] :
           e \in SeqsUpTo(Elems(n), MaxResp) }

ItemContents(n) ==
  { [kind |-> k, elems |-> <<>>, obj |-> EmptyObj] :
      k \in {"empty", "garbage", "badblock", "scalar", "list"} }
  \cup { [kind |-> "dict", elems |-> <<>>, obj |-> o] : o \in Objs(n) }

\* --------------------------------------------------------------- the state
VARIABLES
  provider,   \* "deepseek" | "kimi": which client module runs
  items,      \* score_items: the ids of the input items, in order
  pc,         \* score_items: "batch" | "parse" | "peritem" | "done" | "escaped" | "idle"
  content,    \* score_items: message.content of the batch answer
  cause,      \* score_items: why per-item mode was entered ("" if it was not)
  results,    \* score_items: the list being returned
  callLog,    \* every chat.completions.create call: [req, ok], req 0 = batch, i = item i
  reqLog,     \* every score_item invocation: the index of its item
  lastItem,   \* score_item: message.content of the latest per-item answer
  expected_count, \* segment_items_from_content: the number of items asked for
  retryEnv,   \* the environment variable WORDREPORTCHECK_SEGMENT_RETRY
  attempt,    \* segment_items_from_content: the loop variable (attempts begun so far)
  last_len,   \* segment_items_from_content: <<>> for None, <<k>> for the count k
  segPc,      \* segment_items_from_content: "loop" | "returned" | "raised" | "idle"
  result_items, \* segment_items_from_content: the list returned
  segErr,     \* segment_items_from_content: the ValueError raised, [counts, expected, actual]
  segCalls,   \* segment_items_from_content: chat.completions.create calls made
  lastAnswer, \* segment_items_from_content: what the latest attempt got, [kind, n]
  content_text,   \* _parse_content_items: the raw content, as its lines
  local_expected, \* _parse_content_items: expected_count
  local_items,    \* _parse_content_items: the list returned
  localPc,        \* _parse_content_items: "call" | "returned" | "idle"
  has_grid_span,  \* _get_grid_span: whether the cells have a grid_span attribute
  row_idx,        \* _parse_by_template: the index of the next row
  row,            \* _parse_by_template: the row of the latest turn of the loop
  filled,         \* _parse_by_template: rows read so far that are not a blank row
  report,         \* _parse_by_template: the ReportDocument being filled
  content_started, \* _parse_by_template: the content keyword has been seen
  analys_row_idx, \* _parse_by_template: <<>> for None, <<k>> for the anchor row k
  content_buffer, \* _parse_by_template: the row texts of the content region
  tmplPc,         \* _parse_by_template: "open" | "scan" | "returned" | "idle"
  tmplResult,     \* _parse_by_template: "report" | "none"
  doc,            \* parse_docx_to_report: the document, its tables as lists of rows
  docPc,          \* "template" | "fallback" | "returned" | "segmented" | "stopped" | "idle"
  tmpl_matched,   \* parse_docx_to_report: _parse_by_template returned a record
  doc_path,       \* parse_docx_to_report: "" | "template" | "fallback", the path taken
  fb_idx,         \* parse_docx_to_report: rows the fallback loops have passed
  doc_report,     \* parse_docx_to_report: the record (the caller's, once returned)
  content_accumulator, \* parse_docx_to_report: the fallback's content values
  wdoc,           \* write_grade_and_date: the document in memory
  disk,           \* write_grade_and_date: the document in the file at doc_path
  wPc,            \* write_grade_and_date: "open" | "grade" | "date" | "save" | "returned" | "idle"
  w_table,        \* write_grade_and_date: the loop over doc.tables (from 1)
  wrote_any,      \* write_grade_and_date: wrote_any
  w_result,       \* write_grade_and_date: the value returned
  writes,         \* write_grade_and_date: the cell assignments made, in order
  write_failed,   \* write_grade_and_date: a cell assignment raised
  saves,          \* write_grade_and_date: calls of doc.save that succeeded
  original,       \* write_grade_and_date: the document in the file before the call
  auto_pc,        \* auto: "start" | "parsed" | "segmented" | "scored" | "stored" | "returned" | "idle"
  rc,             \* auto: the value returned, -1 before the return
  out_choice,     \* auto: "default" | "same" | "other", the output directory
  want,           \* auto: seg_count
  rec,            \* auto: report
  json_file,      \* auto: the file at json_path
  avg,            \* auto: avg, <<>> for None
  io_failed,      \* auto: a file operation failed for a reason outside the run
  files,          \* auto: the document files, by path
  dir_pc,         \* auto-dir: "start" | "loop" | "copy" | "done" | "idle"
  dir_docs,       \* auto-dir: docs
  dir_out,        \* auto-dir: out_dir
  dir_idx,        \* auto-dir: the number of documents the loop has left behind
  total,          \* auto-dir: total
  failed,         \* auto-dir: failed
  handled,        \* auto-dir: the documents handled with their outcomes, in order
  dir_files       \* auto-dir: the document files, by path

gradeVars == <<items, pc, content, cause, results, callLog, reqLog, lastItem>>

segVars == <<expected_count, retryEnv, attempt, last_len, segPc, result_items, segErr,
             segCalls, lastAnswer>>

localVars == <<content_text, local_expected, local_items, localPc>>

tmplVars == <<has_grid_span, row_idx, row, filled, report, content_started,
              analys_row_idx, content_buffer, tmplPc, tmplResult>>

parseVars == <<doc, docPc, tmpl_matched, doc_path, fb_idx, doc_report,
               content_accumulator>>

docVars == <<localVars, tmplVars, parseVars>>

writeVars ==
  <<wdoc, disk, wPc, w_table, wrote_any, w_result, writes, write_failed, saves, original>>

autoVars == <<auto_pc, rc, out_choice, want, rec, json_file, avg, io_failed, files>>

dirVars == <<dir_pc, dir_docs, dir_out, dir_idx, total, failed, handled, dir_files>>

vars == <<provider, gradeVars, segVars, docVars, writeVars, autoVars, dirVars>>

\* ------------------------------------------------- deepseek_client / kimi_client
FALLBACK_SCORE == 60

\* The fixed placeholder feedback of _ensure_scored (the model returned no
\* well-formed JSON; fallback score and placeholder feedback were used).
FALLBACK_FEEDBACK == "<fallback feedback>"

\* The fixed raw text of score_item when the call failed.
RAW_CALL_FAILED == "<model call failed>"

\* The result has no "raw" key.
NoRaw == "<no raw>"

\* raw=content: the answer's text itself.
RawContent == "<content>"

\* str.strip() on the feedback strings of the model.
Strip(s) == IF s = FbBlank THEN "" ELSE s

\* str(feedback).
PyStr(f) == IF f = FbNumber THEN "5" ELSE f

\* isinstance(score, (int, float)); bool is a subclass of int.
IsNumber(s) == s.t \in {"int", "float", "nanfloat", "bool"}

\* _ensure_scored without the fallback score: a missing or non-numeric score
\* is returned as it came.
ensure_scored_keeps_score(obj, itemId, raw) ==
  LET out_id == IF obj.isdict /\ obj.id \notin {IdAbsent, IdNull} THEN obj.id ELSE itemId
      score0 == IF obj.isdict THEN obj.score ELSE ScoreNone
      fb0 == IF obj.isdict THEN obj.fb ELSE FbNone
      fb1 == IF fb0 = FbNone \/ Strip(fb0) = "" THEN FALLBACK_FEEDBACK ELSE fb0
      score2 == IF score0.t = "float" THEN [t |-> "int", v |-> score0.v \div 10] ELSE score0
  IN [raises |-> score0.t = "nanfloat", id |-> out_id, score |-> score2,
      feedback |-> PyStr(fb1), raw |-> raw]

\* _ensure_scored with the float conversion dropped: a non-finite float is
\* returned as it came and nothing is raised.
ensure_scored_no_int(obj, itemId, raw) ==
  LET out_id == IF obj.isdict /\ obj.id \notin {IdAbsent, IdNull} THEN obj.id ELSE itemId
      score0 == IF obj.isdict THEN obj.score ELSE ScoreNone
      fb0 == IF obj.isdict THEN obj.fb ELSE FbNone
      score1 == IF IsNumber(score0) THEN score0 ELSE [t |-> "int", v |-> FALLBACK_SCORE]
      fb1 == IF fb0 = FbNone \/ Strip(fb0) = "" THEN FALLBACK_FEEDBACK ELSE fb0
  IN [raises |-> FALSE, id |-> out_id, score |-> score1, feedback |-> PyStr(fb1),
      raw |-> raw]

\* _ensure_scored(obj, item, raw): [raises, id, score, feedback, raw].
\* int(score) raises ValueError/OverflowError on NaN and the infinities.
ensure_scored(obj, itemId, raw) ==
  LET out_id == IF obj.isdict /\ obj.id \notin {IdAbsent, IdNull} THEN obj.id ELSE itemId
      score0 == IF obj.isdict THEN obj.score ELSE ScoreNone
      fb0 == IF obj.isdict THEN obj.fb ELSE FbNone
      score1 == IF IsNumber(score0) THEN score0 ELSE [t |-> "int", v |-> FALLBACK_SCORE]
      fb1 == IF fb0 = FbNone \/ Strip(fb0) = "" THEN FALLBACK_FEEDBACK ELSE fb0
      score2 == IF score1.t = "float" THEN [t |-> "int", v |-> score1.v \div 10] ELSE score1
  IN [raises |-> score1.t = "nanfloat", id |-> out_id, score |-> score2,
      feedback |-> PyStr(fb1), raw |-> raw]

\* The result dict alone.
ResultOf(r) == [id |-> r.id, score |-> r.score, feedback |-> r.feedback, raw |-> r.raw]

\* json.loads(content), and on failure json.loads(_extract_json_block(content)):
\* [raises, type]; type is the Python type of `parsed`.
load_json(c) ==
  CASE c.kind \in {"empty", "garbage"} -> [raises |-> FALSE, type |-> "none"]
    [] c.kind = "badblock" -> [raises |-> TRUE, type |-> "none"]
    [] OTHER -> [raises |-> FALSE, type |-> c.kind]

\* by_id: the last array element that is a dict with the key "id" equal to k.
HasId(elems, k) == \E j \in 1..Len(elems) : elems[j].isdict /\ elems[j].id = k

by_id(elems, k) ==
  LET js == {j \in 1..Len(elems) : elems[j].isdict /\ elems[j].id = k}
  IN elems[CHOOSE j \in js : \A j2 \in js : j2 <= j]

\* The object score_items aligns with the item at position idx.
aligned_obj(elems, itemId, idx) ==
  IF HasId(elems, itemId) THEN by_id(elems, itemId)
  ELSE IF idx <= Len(elems) /\ elems[idx].isdict THEN elems[idx]
  ELSE EmptyObj

\* score_items, the branch isinstance(parsed, list): the ensured list.
ensured(elems, its) ==
  [idx \in 1..Len(its) |-> ensure_scored(aligned_obj(elems, its[idx], idx), its[idx], NoRaw)]

\* score_item, after a successful call: the returned dict.
score_item_parsed(c, itemId) ==
  LET p == load_json(c)
      first == ensure_scored(IF p.type = "dict" THEN c.obj ELSE EmptyObj, itemId, NoRaw)
  IN IF p.raises \/ first.raises
     THEN ensure_scored(EmptyObj, itemId, RawContent)
     ELSE first

\* score_item's failure branch without the diagnostic raw text.
score_item_failed_no_raw(itemId) == ensure_scored(EmptyObj, itemId, NoRaw)

\* score_item, when _safe_chat_create returned None.
score_item_failed(itemId) == ensure_scored(EmptyObj, itemId, RAW_CALL_FAILED)

\* A variant in which either client tries once more.
Tries_once_more(p) == IF p = "kimi" THEN 3 ELSE 2

\* The number of chat.completions.create tries per request: kimi tries the
\* JSON response mode first and plain text second.
Tries(p) == IF p = "kimi" THEN 2 ELSE 1

\* How many calls the current request already made.
TriesMade(log, req) == Cardinality({k \in 1..Len(log) : log[k].req = req})

\* ------------------------------------------------- _parse_content_items
\* Number of lines of the raw content handed to the local segmenter.
MaxLines == 3
\* Largest expected_count handed to the local segmenter.
MaxWant == 3

\* The lines the segmenter tells apart. "Timu<n>:" stands for the boundary
\* marker (the two characters of "question", a numeral, a colon); no line of
\* this alphabet carries a sub-label, so label_pat never matches.
LineX == "Timu1:do X"
LineY == "Timu2:do Y"
LineBare == "Timu3:"
LineText == "some text"
LineBlank == ""

Lines == {LineX, LineY, LineBare, LineText, LineBlank}

\* seg_pat matches at the line: it starts with a marker.
IsMarker(l) == l \in {LineX, LineY, LineBare}

\* What follows the colon of a marker line.
body_of(l) ==
  CASE l = LineX -> "do X"
    [] l = LineY -> "do Y"
    [] l = LineBare -> ""
    [] OTHER -> l

SetMin(S) == CHOOSE x \in S : \A y \in S : x <= y

\* The first marker line at or after line i (Len + 1: none).
NextMarker(lines, i) ==
  LET S == {j \in i..Len(lines) : IsMarker(lines[j])}
  IN IF S = {} THEN Len(lines) + 1 ELSE SetMin(S)

\* The first non-blank line at or after line i (Len + 1: none).
NextNonBlank(lines, i) ==
  LET S == {j \in i..Len(lines) : lines[j] # LineBlank}
  IN IF S = {} THEN Len(lines) + 1 ELSE SetMin(S)

\* _strip on a text held as its lines: blank lines at both ends go.
strip_lines(ls) ==
  LET S == {j \in 1..Len(ls) : ls[j] # LineBlank}
  IN IF S = {} THEN <<>>
     ELSE SubSeq(ls, SetMin(S), CHOOSE x \in S : \A y \in S : y <= x)

\* seg_pat.finditer from line i on: group(2) of every match, stripped. The
\* \s* after the colon runs over line ends, so the body of a bare marker
\* starts at the next non-blank line, and that line is no boundary even
\* when it is a marker line; the body ends before the next marker line.
RECURSIVE seg_scan(_, _)
seg_scan(lines, i) ==
  LET j == NextMarker(lines, i)
  IN IF j > Len(lines) THEN <<>>
     ELSE LET k == IF body_of(lines[j]) # "" THEN j ELSE NextNonBlank(lines, j + 1)
          IN IF k > Len(lines) THEN << <<>> >>
             ELSE LET first == IF k = j THEN body_of(lines[j]) ELSE lines[k]
                      b == NextMarker(lines, k + 1)
                  IN <<strip_lines(<<first>> \o SubSeq(lines, k + 1, b - 1))>>
                       \o seg_scan(lines, b)

\* The segments: the matches, or the whole text when there is none and the
\* text is not blank.
segments_of(lines) ==
  LET s == seg_scan(lines, 1)
  IN IF s = <<>> /\ strip_lines(lines) # <<>> THEN <<strip_lines(lines)>> ELSE s

NoTitle == "<None>"

\* _extract_fields of a segment without sub-labels, and the ReportItem made
\* of it: the first line is title and question, the rest is the method text.
item_of(idx, seg) ==
  LET methods == IF Len(seg) > 1 THEN strip_lines(Tail(seg)) ELSE <<>>
      title == IF seg = <<>> THEN "" ELSE seg[1]
  IN [id |-> QId(idx), title |-> title, question |-> title, methods |-> methods,
      answer |-> IF methods = <<>> THEN <<>> ELSE <<"methods:">> \o methods]

\* The placeholder appended when segments are missing.
placeholder_item(n) ==
  [id |-> QId(n), title |-> NoTitle, question |-> "", methods |-> <<>>, answer |-> <<>>]

\* The items of the segments, before the count is enforced.
segment_items(lines) ==
  LET segs == segments_of(lines)
  IN [idx \in 1..Len(segs) |-> item_of(idx, segs[idx])]

\* A variant that truncates and never pads.
parse_content_items_no_padding(lines, expected) ==
  LET its == segment_items(lines)
  IN IF expected > 0 /\ Len(its) > expected THEN SubSeq(its, 1, expected) ELSE its

\* The items, with the count enforced when expected_count > 0.
parse_content_items(lines, expected) ==
  LET its == segment_items(lines)
  IN IF expected > 0
     THEN IF Len(its) > expected THEN SubSeq(its, 1, expected)
          ELSE its \o [i \in 1..(expected - Len(its)) |-> placeholder_item(Len(its) + i)]
     ELSE its


\* ---------------------------------------------------- _parse_by_template
\* Number of rows of the first table.
MaxRows == 8
\* Number of rows of the first table that are not a blank row.
MaxFilled == 3

\* Cell texts. ContentMarker and AnchorMarker stand for the texts holding
\* the content keyword and the analysis keyword.
ContentMarker == "<content keyword>"
AnchorMarker == "<analysis keyword>"

\* _strip.
strip_text(s) ==
  CASE s = "  " -> ""
    [] s = " a " -> "a"
    [] OTHER -> s

Cell(t, s) == [text |-> t, span |-> s]

\* Rows as their logical cells, left to right.
BlankRow == <<Cell("  ", 1)>>
BlankPair == <<Cell("", 1), Cell("", 1)>>
ValueRow == <<Cell(" a ", 1), Cell("b", 1), Cell("c", 1), Cell("d", 1)>>
MergedRow == <<Cell("a", 2), Cell("b", 1), Cell("c", 1)>>
ContentRow == <<Cell(ContentMarker, 1), Cell("b", 1)>>
AnchorRow == <<Cell(AnchorMarker, 1), Cell("b", 1)>>
TextBlankRow == <<Cell("a", 1), Cell("", 1)>>

RowShapes == {BlankRow, BlankPair, ValueRow, MergedRow, ContentRow, AnchorRow, TextBlankRow}

\* row.cells: one entry per grid column, a merged cell repeated over its span.
RECURSIVE cells_of(_)
cells_of(r) ==
  IF r = <<>> THEN <<>>
  ELSE [i \in 1..r[1].span |-> r[1]] \o cells_of(Tail(r))

\* _get_grid_span: the cell's grid_span, 1 when the attribute does not exist.
get_grid_span(cell, hasAttr) == IF hasAttr THEN cell.span ELSE 1

\* row_text, held as the stripped cell texts that " ".join puts together.
row_text_of(r) == [i \in 1..Len(cells_of(r)) |-> strip_text(cells_of(r)[i].text)]

\* bool(row_text): the joined text is not the empty string.
Truthy(rt) == Len(rt) >= 2 \/ (Len(rt) = 1 /\ rt[1] # "")

\* keyword in row_text.
Contains(rt, kw) == \E i \in 1..Len(rt) : rt[i] = kw

Unset == "<None>"

NoRawContent == [set |-> FALSE, rows |-> <<>>]

\* ReportDocument(content_items=[]): college, major, term, name, student_id,
\* class, advisor, course, week, experiment, analysis, exp_date, remarks,
\* grade, signoff_date, environment, signature stand for the canonical field
\* names.
EmptyReport ==
  [college |-> Unset, major |-> Unset, term |-> Unset, name |-> Unset,
   student_id |-> Unset, class |-> Unset, advisor |-> Unset, course |-> Unset,
   week |-> Unset, experiment |-> Unset, analysis |-> Unset, exp_date |-> Unset,
   remarks |-> Unset, grade |-> Unset, signoff_date |-> Unset,
   environment |-> Unset, signature |-> Unset,
   raw_content |-> NoRawContent, content_items |-> <<>>]

set_field(rep, name, value) == [rep EXCEPT ![name] = strip_text(value)]

\* The field assigned on rows 0-4 at a cell index ("" : none).
header_field(ridx, gsi) ==
  CASE ridx = 0 /\ gsi = 0 -> "college"
    [] ridx = 0 /\ gsi = 1 -> "major"
    [] ridx = 0 /\ gsi = 2 -> "term"
    [] ridx = 1 /\ gsi = 1 -> "name"
    [] ridx = 1 /\ gsi = 3 -> "student_id"
    [] ridx = 2 /\ gsi = 1 -> "class"
    [] ridx = 2 /\ gsi = 3 -> "advisor"
    [] ridx = 3 /\ gsi = 1 -> "course"
    [] ridx = 3 /\ gsi = 3 -> "week"
    [] ridx = 4 /\ gsi = 1 -> "experiment"
    [] OTHER -> ""

\* The field assigned on the rows after the anchor ("" : none).
anchor_field(ridx, gsi, anchor) ==
  IF anchor = <<>> THEN ""
  ELSE CASE ridx = anchor[1] + 1 -> "analysis"
         [] ridx = anchor[1] + 2 -> "exp_date"
         [] ridx = anchor[1] + 3 /\ gsi = 1 -> "remarks"
         [] ridx = anchor[1] + 4 /\ gsi = 1 -> "grade"
         [] ridx = anchor[1] + 6 /\ gsi = 1 -> "signoff_date"
         [] OTHER -> ""

\* A variant in which grid_span_index advances by the span too.
RECURSIVE scan_cells_by_grid(_, _, _, _, _, _, _)
scan_cells_by_grid(cells, col_idx, gsi, ridx, anchor, rep, hasAttr) ==
  IF col_idx >= Len(cells) THEN rep
  ELSE LET cell == cells[col_idx + 1]
           h == header_field(ridx, gsi)
           a == anchor_field(ridx, gsi, anchor)
           r1 == IF h = "" THEN rep ELSE set_field(rep, h, cell.text)
           r2 == IF a = "" THEN r1 ELSE set_field(r1, a, cell.text)
       IN scan_cells_by_grid(cells, col_idx + get_grid_span(cell, hasAttr),
                             gsi + get_grid_span(cell, hasAttr), ridx, anchor, r2, hasAttr)

\* The while loop over ridx.cells: col_idx advances by the span, and
\* grid_span_index, which selects the fields, by one.
RECURSIVE scan_cells(_, _, _, _, _, _, _)
scan_cells(cells, col_idx, gsi, ridx, anchor, rep, hasAttr) ==
  IF col_idx >= Len(cells) THEN rep
  ELSE LET cell == cells[col_idx + 1]
           h == header_field(ridx, gsi)
           a == anchor_field(ridx, gsi, anchor)
           r1 == IF h = "" THEN rep ELSE set_field(rep, h, cell.text)
           r2 == IF a = "" THEN r1 ELSE set_field(r1, a, cell.text)
       IN scan_cells(cells, col_idx + get_grid_span(cell, hasAttr), gsi + 1,
                     ridx, anchor, r2, hasAttr)

\* The loop state of _parse_by_template before its first row.
ScanStart ==
  [report |-> EmptyReport, content_started |-> FALSE, analys_row_idx |-> <<>>,
   content_buffer |-> <<>>]

\* A variant that takes a row with the analysis keyword as the anchor whether
\* or not the content region was opened.
scan_row_anchor_anywhere(st, r, ridx, hasAttr) ==
  LET rep == scan_cells(cells_of(r), 0, 0, ridx, st.analys_row_idx, st.report, hasAttr)
      rt == row_text_of(r)
      st1 == [st EXCEPT !.report = rep]
  IN IF ~st.content_started /\ Contains(rt, ContentMarker)
     THEN [st1 EXCEPT !.content_started = TRUE]
     ELSE IF st.analys_row_idx = <<>> /\ Contains(rt, AnchorMarker)
     THEN [st1 EXCEPT !.analys_row_idx = <<ridx>>]
     ELSE IF st.content_started /\ st.analys_row_idx = <<>> /\ Truthy(rt)
     THEN [st1 EXCEPT !.content_buffer = Append(st.content_buffer, rt)]
     ELSE st1

\* A variant without the continue on the opening row: the row that opens
\* the content region goes on to the content test.
scan_row_opening_counts(st, r, ridx, hasAttr) ==
  LET rep == scan_cells(cells_of(r), 0, 0, ridx, st.analys_row_idx, st.report, hasAttr)
      rt == row_text_of(r)
      st1 == [st EXCEPT !.report = rep,
                        !.content_started = @ \/ Contains(rt, ContentMarker)]
  IN IF st1.content_started /\ st.analys_row_idx = <<>>
     THEN IF Contains(rt, AnchorMarker)
          THEN [st1 EXCEPT !.analys_row_idx = <<ridx>>]
          ELSE IF Truthy(rt)
          THEN [st1 EXCEPT !.content_buffer = Append(st.content_buffer, rt)]
          ELSE st1
     ELSE st1

\* One turn of the row loop on row r, the row of index ridx: the cells are
\* walked, then the row opens the content region, or closes it as the anchor,
\* or is added to the content, or is passed over.
scan_row(st, r, ridx, hasAttr) ==
  LET rep == scan_cells(cells_of(r), 0, 0, ridx, st.analys_row_idx, st.report, hasAttr)
      rt == row_text_of(r)
      st1 == [st EXCEPT !.report = rep]
  IN IF ~st.content_started /\ Contains(rt, ContentMarker)
     THEN [st1 EXCEPT !.content_started = TRUE]
     ELSE IF st.content_started /\ st.analys_row_idx = <<>>
     THEN IF Contains(rt, AnchorMarker)
          THEN [st1 EXCEPT !.analys_row_idx = <<ridx>>]
          ELSE IF Truthy(rt)
          THEN [st1 EXCEPT !.content_buffer = Append(st.content_buffer, rt)]
          ELSE st1
     ELSE st1

\* str.strip of the joined content, on the rows' token lists.
RECURSIVE ltrim(_)
ltrim(t) == IF t = <<>> THEN <<>> ELSE IF t[1] = "" THEN ltrim(Tail(t)) ELSE t

RECURSIVE rtrim(_)
rtrim(t) ==
  IF t = <<>> THEN <<>>
  ELSE IF t[Len(t)] = "" THEN rtrim(SubSeq(t, 1, Len(t) - 1)) ELSE t

RECURSIVE lstrip_rows(_)
lstrip_rows(b) ==
  IF b = <<>> THEN <<>>
  ELSE IF ltrim(b[1]) = <<>> THEN lstrip_rows(Tail(b))
  ELSE <<ltrim(b[1])>> \o Tail(b)

RECURSIVE rstrip_rows(_)
rstrip_rows(b) ==
  IF b = <<>> THEN <<>>
  ELSE IF rtrim(b[Len(b)]) = <<>> THEN rstrip_rows(SubSeq(b, 1, Len(b) - 1))
  ELSE SubSeq(b, 1, Len(b) - 1) \o <<rtrim(b[Len(b)])>>

\* _strip("\n\n".join(content_buffer)).
strip_join(b) == rstrip_rows(lstrip_rows(b))

\* A row text as a line: " ".join of its cell texts.
RECURSIVE join_tokens(_)
join_tokens(rt) ==
  IF rt = <<>> THEN ""
  ELSE IF Len(rt) = 1 THEN rt[1]
  ELSE rt[1] \o " " \o join_tokens(Tail(rt))

\* The raw content as the lines handed to _parse_content_items: the row
\* texts, a blank line between two of them.
RECURSIVE lines_of(_)
lines_of(rows) ==
  IF rows = <<>> THEN <<>>
  ELSE IF Len(rows) = 1 THEN <<join_tokens(rows[1])>>
  ELSE <<join_tokens(rows[1]), LineBlank>> \o lines_of(Tail(rows))

\* A variant that segments the content while extracting.
with_content_segmented(rep, buffer) ==
  IF buffer # <<>>
  THEN [rep EXCEPT !.raw_content = [set |-> TRUE, rows |-> strip_join(buffer)],
                   !.content_items = segment_items(lines_of(strip_join(buffer)))]
  ELSE rep

\* The record as it stands after the row loop.
with_content(rep, buffer) ==
  IF buffer # <<>>
  THEN [rep EXCEPT !.raw_content = [set |-> TRUE, rows |-> strip_join(buffer)]]
  ELSE rep

\* bool() of a field.
Filled(v) == v \notin {Unset, ""}

\* A variant that looks at every assigned field.
has_any_of_all_fields(rep) ==
  \/ \E f \in {"college", "major", "term", "name", "student_id", "class", "advisor",
               "course", "week", "experiment", "analysis", "exp_date", "remarks",
               "grade", "signoff_date"} : Filled(rep[f])
  \/ rep.raw_content.rows # <<>>

\* A variant that leaves the raw content out.
has_any_fields_only(rep) ==
  \E f \in {"college", "major", "term", "name", "student_id", "course",
             "experiment", "analysis", "exp_date"} : Filled(rep[f])

\* has_any: one of the nine key fields, or non-blank raw content.
has_any(rep) ==
  \/ \E f \in {"college", "major", "term", "name", "student_id", "course",
               "experiment", "analysis", "exp_date"} : Filled(rep[f])
  \/ rep.raw_content.rows # <<>>


\* --------------------------------------------------- parse_docx_to_report
\* Number of rows of the document, over all its tables.
MaxDocRows == 3

\* Label texts: ClassLabel stands for the class label, ClassLabelSpaced for
\* the same label written with inner blanks and a colon at its end, ClassLine
\* for a single cell holding the label, a colon and a value.
ClassLabel == "<class>"
ClassLabelSpaced == "<cl ass>:"
ClassLine == "<class>:CS103"

\* The values of LABEL_MAP, by the names of the record's fields ("content"
\* for the content label).
CanonicalLabels ==
  {"college", "major", "term", "name", "student_id", "class", "advisor", "course",
   "week", "experiment", "environment", "content", "analysis", "exp_date", "remarks",
   "grade", "signature", "signoff_date"}

\* _normalize_label: strip, drop the colon at the end, drop the blanks, then
\* LABEL_MAP.get(t, t).
normalize_label(t) ==
  CASE t \in {ClassLabel, ClassLabelSpaced, "<cl ass>"} -> "class"
    [] t = ContentMarker -> "content"
    [] t = AnchorMarker -> "analysis"
    [] OTHER -> strip_text(t)

\* re.split on the first colon.
split_colon(t) ==
  CASE t = ClassLine -> <<ClassLabel, "CS103">>
    [] t = ClassLabelSpaced -> <<"<cl ass>", "">>
    [] t = LineX -> <<"Timu1", "do X">>
    [] t = LineY -> <<"Timu2", "do Y">>
    [] t = LineBare -> <<"Timu3", "">>
    [] OTHER -> <<t>>

NoPair == [some |-> FALSE, label |-> "", value |-> ""]

\* _extract_row_label_value.
extract_row_label_value(r) ==
  LET cells == cells_of(r)
  IN IF cells = <<>> THEN NoPair
     ELSE IF Len(cells) >= 2
     THEN [some |-> TRUE, label |-> normalize_label(cells[1].text),
           value |-> strip_text(cells[2].text)]
     ELSE LET parts == split_colon(strip_text(cells[1].text))
          IN IF Len(parts) = 2
             THEN [some |-> TRUE, label |-> normalize_label(parts[1]),
                   value |-> strip_text(parts[2])]
             ELSE NoPair

\* Rows of a document.
ClassRow == <<Cell(ClassLabel, 1), Cell("CS101", 1)>>
ClassRowSpaced == <<Cell(ClassLabelSpaced, 1), Cell("CS102", 1)>>
ClassLineRow == <<Cell(ClassLine, 1)>>
ContentPairRow == <<Cell(ContentMarker, 1), Cell(LineX, 1)>>
ContentBlankRow == <<Cell(ContentMarker, 1), Cell("  ", 1)>>
QuestionRow == <<Cell(LineY, 1)>>

DocRowShapes ==
  {BlankRow, ValueRow, ClassRow, ClassRowSpaced, ClassLineRow, ContentPairRow,
   ContentBlankRow, QuestionRow, AnchorRow}

\* The documents: no table, one table, or two tables, of MaxDocRows rows in all.
Docs ==
  {<<>>}
  \cup { <<t>> : t \in SeqsUpTo(DocRowShapes, MaxDocRows) }
  \cup UNION { { <<SubSeq(t, 1, k), SubSeq(t, k + 1, Len(t))>> : k \in 0..Len(t) } :
                t \in SeqsUpTo(DocRowShapes, MaxDocRows) }

\* The rows of all tables, in the order of the loops over doc.tables and
\* table.rows.
RECURSIVE all_rows(_)
all_rows(d) == IF d = <<>> THEN <<>> ELSE d[1] \o all_rows(Tail(d))

\* The row loop of _parse_by_template over rows, from the row of index ridx.
RECURSIVE scan_rows(_, _, _, _)
scan_rows(st, rows, ridx, hasAttr) ==
  IF ridx >= Len(rows) THEN st
  ELSE scan_rows(scan_row(st, rows[ridx + 1], ridx, hasAttr), rows, ridx + 1, hasAttr)

\* _parse_by_template(doc): None without a table or without a row, else the
\* record when has_any.
parse_by_template(d, hasAttr) ==
  IF d = <<>> \/ d[1] = <<>> THEN [matched |-> FALSE, report |-> EmptyReport]
  ELSE LET st == scan_rows(ScanStart, d[1], 0, hasAttr)
           rep == with_content(st.report, st.content_buffer)
       IN [matched |-> has_any(rep), report |-> rep]

\* A variant of the fallback's assignment that keeps the first value.
fallback_assign_first_wins(rep, acc, r) ==
  LET pair == extract_row_label_value(r)
  IN IF ~pair.some THEN [report |-> rep, acc |-> acc]
     ELSE IF pair.label = "content"
     THEN [report |-> rep,
           acc |-> IF pair.value # "" THEN Append(acc, <<pair.value>>) ELSE acc]
     ELSE IF pair.label \in CanonicalLabels /\ rep[pair.label] = Unset
     THEN [report |-> [rep EXCEPT ![pair.label] = pair.value], acc |-> acc]
     ELSE [report |-> rep, acc |-> acc]

\* A variant that adds the value of the content label when it is empty too.
fallback_assign_appends_empty(rep, acc, r) ==
  LET pair == extract_row_label_value(r)
  IN IF ~pair.some THEN [report |-> rep, acc |-> acc]
     ELSE IF pair.label = "content"
     THEN [report |-> rep, acc |-> Append(acc, <<pair.value>>)]
     ELSE IF pair.label \in CanonicalLabels
     THEN [report |-> [rep EXCEPT ![pair.label] = pair.value], acc |-> acc]
     ELSE [report |-> rep, acc |-> acc]

\* One turn of the fallback's row loop: the content label adds its value to
\* the accumulator, a canonical label sets its field, the last row winning.
fallback_assign(rep, acc, r) ==
  LET pair == extract_row_label_value(r)
  IN IF ~pair.some THEN [report |-> rep, acc |-> acc]
     ELSE IF pair.label = "content"
     THEN [report |-> rep,
           acc |-> IF pair.value # "" THEN Append(acc, <<pair.value>>) ELSE acc]
     ELSE IF pair.label \in CanonicalLabels
     THEN [report |-> [rep EXCEPT ![pair.label] = pair.value], acc |-> acc]
     ELSE [report |-> rep, acc |-> acc]

\* The raw content of the fallback: the joined accumulator, stripped, None
\* when that is empty.
fallback_content(rep, acc) ==
  [rep EXCEPT !.raw_content =
     IF strip_join(acc) # <<>> THEN [set |-> TRUE, rows |-> strip_join(acc)]
     ELSE NoRawContent]

\* ----------------------------------------------------- write_grade_and_date
\* Number of rows of the document written to, over all its tables.
MaxWriteRows == 3

\* Cell texts of the document written to: the grade label, the grade label
\* with inner blanks and a colon, the date label, and the experiment date
\* label, which holds the date label.
GradeLabel == "<grade>"
GradeLabelSpaced == "<gr ade>:"
DateLabel == "<date>"
ExpDateLabel == "<experiment date>"

\* str(grade) and str(date_val).
GradeText == "87.5"
DateText == "<today>"

\* (label in text) or (lbl_norm in normalized), for the labels "grade" and
\* "date".
label_in_exact(label, text) ==
  CASE label = "grade" -> text = GradeLabel
    [] label = "date" -> text = DateLabel
    [] OTHER -> FALSE

label_in(label, text) ==
  CASE label = "grade" -> text \in {GradeLabel, GradeLabelSpaced}
    [] label = "date" -> text \in {DateLabel, ExpDateLabel}
    [] OTHER -> FALSE

\* unique_order_indices: the index in row.cells (from 0) at which each
\* visible cell first shows.
RECURSIVE unique_order_indices(_, _)
unique_order_indices(r, at) ==
  IF r = <<>> THEN <<>>
  ELSE <<at>> \o unique_order_indices(Tail(r), at + r[1].span)

\* A variant that stays on the label cell when there is no cell after it.
target_vis_idx_stays(vis_idx, n, prefer_prev_if_last) ==
  IF vis_idx + 1 < n THEN vis_idx + 1
  ELSE IF prefer_prev_if_last /\ vis_idx - 1 >= 0 THEN vis_idx - 1
  ELSE vis_idx

\* target_vis_idx for the label found at the visible index vis_idx (from 0)
\* of n visible cells.
target_vis_idx(vis_idx, n, prefer_prev_if_last) ==
  IF vis_idx + 1 < n THEN vis_idx + 1
  ELSE IF prefer_prev_if_last /\ vis_idx - 1 >= 0 THEN vis_idx - 1
  ELSE 0

NotFound == [found |-> FALSE, row |-> 0, vis |-> 0, raw_idx |-> 0, target |-> 0]

\* The row's part of _find_label_row_and_value_cell: only a row of two
\* visible cells is looked at, and its first cell holding the label decides.
find_in_row(r, i, label, prefer_prev_if_last) ==
  LET hits == {v \in 1..Len(r) : label_in(label, strip_text(r[v].text))}
  IN IF Len(r) # 2 \/ hits = {} THEN NotFound
     ELSE LET vis == SetMin(hits) - 1
              t == target_vis_idx(vis, Len(r), prefer_prev_if_last)
          IN [found |-> TRUE, row |-> i, vis |-> vis, target |-> t,
              raw_idx |-> unique_order_indices(r, 0)[t + 1]]

\* _find_label_row_and_value_cell: the first row of the table that yields a
\* value cell.
find_label_row_and_value_cell(table, label, prefer_prev_if_last) ==
  LET rs == {i \in 1..Len(table) :
               find_in_row(table[i], i, label, prefer_prev_if_last).found}
  IN IF rs = {} THEN NotFound
     ELSE find_in_row(table[SetMin(rs)], SetMin(rs), label, prefer_prev_if_last)

\* The visible cell (from 1) that row.cells[raw_idx] is.
cell_at(r, raw_idx) ==
  CHOOSE v \in 1..Len(r) :
    /\ unique_order_indices(r, 0)[v] <= raw_idx
    /\ raw_idx < unique_order_indices(r, 0)[v] + r[v].span

\* row.cells[raw_idx].text = text, in the table.
set_cell_text(table, i, raw_idx, text) ==
  [table EXCEPT ![i] = [@ EXCEPT ![cell_at(@, raw_idx)] =
                          [text |-> text, span |-> @.span]]]

\* A variant that saves whether or not a cell was written.
save_always(wrote) == TRUE

\* if wrote_any: doc.save(...)
save_needed(wrote) == wrote

\* Rows of the document written to.
GradeRow == <<Cell(GradeLabel, 1), Cell("", 1)>>
GradeLastRow == <<Cell("b", 1), Cell(GradeLabelSpaced, 1)>>
MergedGradeRow == <<Cell(GradeLabel, 2), Cell("b", 1)>>
DateRow == <<Cell(DateLabel, 1), Cell("b", 1)>>
DateLastRow == <<Cell("b", 1), Cell(DateLabel, 1)>>
ExpDateRow == <<Cell(ExpDateLabel, 1), Cell("b", 1)>>
DateBothRow == <<Cell(DateLabel, 1), Cell(ExpDateLabel, 1)>>
ThreeCellRow == <<Cell(GradeLabel, 1), Cell("", 1), Cell(DateLabel, 1)>>

WriteRowShapes ==
  {GradeRow, GradeLastRow, MergedGradeRow, DateRow, DateLastRow, ExpDateRow, DateBothRow,
   ThreeCellRow}

\* The documents written to: no table, one table, or two tables, of
\* MaxWriteRows rows in all.
WriteDocs ==
  {<<>>}
  \cup { <<t>> : t \in SeqsUpTo(WriteRowShapes, MaxWriteRows) }
  \cup UNION { { <<SubSeq(t, 1, k), SubSeq(t, k + 1, Len(t))>> : k \in 0..Len(t) } :
                t \in SeqsUpTo(WriteRowShapes, MaxWriteRows) }

\* write_grade_and_date is not running.
WriteIdle ==
  /\ wdoc = <<>>
  /\ disk = <<>>
  /\ wPc = "idle"
  /\ w_table = 0
  /\ wrote_any = FALSE
  /\ w_result = FALSE
  /\ writes = <<>>
  /\ write_failed = FALSE
  /\ saves = 0
  /\ original = <<>>

\* ------------------------------------------------------ the auto pipeline
\* Number of lines of the raw content of the document of an auto run.
MaxAutoLines == 2

\* The f"{avg:.1f}" of an average.
AvgText == "85.5"

\* ReportDocument.to_json_obj: the scalar fields (name stands for all but the
\* grade), the raw content, and every item under its English and Chinese
\* keys.
to_json_obj(rep) ==
  [grade |-> rep.grade, name |-> rep.name, raw |-> rep.raw,
   items |-> [k \in 1..Len(rep.items) |->
                [id |-> rep.items[k].id, question |-> rep.items[k].question,
                 answer |-> rep.items[k].answer, number |-> rep.items[k].id,
                 title_cn |-> rep.items[k].title,
                 question_cn |-> rep.items[k].question,
                 methods_cn |-> rep.items[k].methods]]]

\* report_from_json: `or` chains read the items, so an empty title comes
\* back as None, and an empty answer is put together again from the method
\* text.
report_from_json(obj) ==
  [grade |-> obj.grade, name |-> obj.name, raw |-> obj.raw,
   items |-> [k \in 1..Len(obj.items) |->
                LET i == obj.items[k]
                IN [id |-> i.id,
                    title |-> IF i.title_cn \in {"", NoTitle} THEN NoTitle ELSE i.title_cn,
                    question |-> IF i.question_cn # "" THEN i.question_cn ELSE i.question,
                    methods |-> i.methods_cn,
                    answer |-> IF i.answer # <<>> THEN i.answer
                               ELSE IF i.methods_cn = <<>> THEN <<>>
                               ELSE <<"methods:">> \o i.methods_cn]]]

NoFile == [present |-> FALSE, obj |-> to_json_obj([grade |-> Unset, name |-> Unset,
                                                   raw |-> <<>>, items |-> <<>>])]

\* The output directory of an auto run: "default" without --out-dir, "same"
\* for --out-dir naming the directory of the document, "other" for any other
\* directory; and the directory it is.
dir_of_out(choice) == IF choice = "other" THEN "out" ELSE "in"

\* A file of the tree: not there, or the copy of a document (of: the path of
\* the document it was copied from, or its own path), with or without a
\* grade written by write_grade_and_date.
Absent == [present |-> FALSE, of |-> <<"", "">>, graded |-> FALSE]
Source(p) == [present |-> TRUE, of |-> p, graded |-> FALSE]

\* shutil.copy2(src, dst) raises SameFileError.
same_file(src, dst) == src = dst

\* The auto pipeline is not running.
AutoIdle ==
  /\ auto_pc = "idle"
  /\ rc = -1
  /\ out_choice = "other"
  /\ want = 0
  /\ rec = [grade |-> Unset, name |-> Unset, raw |-> <<>>, items |-> <<>>]
  /\ json_file = NoFile
  /\ avg = <<>>
  /\ io_failed = FALSE
  /\ files = <<>>

\* auto-dir is not running.
DirIdle ==
  /\ dir_pc = "idle"
  /\ dir_docs = <<>>
  /\ dir_out = ""
  /\ dir_idx = 0
  /\ total = 0
  /\ failed = 0
  /\ handled = <<>>
  /\ dir_files = <<>>

\* segment_items_from_content is not running.
NoErr == [counts |-> FALSE, expected |-> 0, actual |-> 0]

NoAnswer == [kind |-> "", n |-> 0]

UnsetEnv == [set |-> FALSE, int |-> FALSE, v |-> 0]

SegIdle ==
  /\ expected_count = 0
  /\ retryEnv = UnsetEnv
  /\ attempt = 0
  /\ last_len = <<>>
  /\ segPc = "idle"
  /\ result_items = <<>>
  /\ segErr = NoErr
  /\ segCalls = 0
  /\ lastAnswer = NoAnswer

\* score_items is not running.
GradeIdle ==
  /\ items = <<>>
  /\ pc = "idle"
  /\ content = NoContent
  /\ cause = ""
  /\ results = <<>>
  /\ callLog = <<>>
  /\ reqLog = <<>>
  /\ lastItem = NoContent

\* _parse_content_items is not running.
LocalIdle ==
  /\ content_text = <<>>
  /\ local_expected = 0
  /\ local_items = <<>>
  /\ localPc = "idle"

\* _parse_by_template is not running.
TmplIdle ==
  /\ has_grid_span = FALSE
  /\ row_idx = 0
  /\ row = <<>>
  /\ filled = 0
  /\ report = EmptyReport
  /\ content_started = FALSE
  /\ analys_row_idx = <<>>
  /\ content_buffer = <<>>
  /\ tmplPc = "idle"
  /\ tmplResult = "none"

\* parse_docx_to_report is not running.
ParseIdle ==
  /\ doc = <<>>
  /\ docPc = "idle"
  /\ tmpl_matched = FALSE
  /\ doc_path = ""
  /\ fb_idx = 0
  /\ doc_report = EmptyReport
  /\ content_accumulator = <<>>

DocIdle == LocalIdle /\ TmplIdle /\ ParseIdle

GradeInit ==
  /\ AutoIdle
  /\ DirIdle
  /\ WriteIdle
  /\ SegIdle
  /\ DocIdle
  /\ provider \in {"deepseek", "kimi"}
  /\ \E n \in 1..MaxItems : items = [i \in 1..n |-> QId(i)]
  /\ pc = "batch"
  /\ content = NoContent
  /\ cause = ""
  /\ results = <<>>
  /\ callLog = <<>>
  /\ reqLog = <<>>
  /\ lastItem = NoContent

\* score_items: one call of the batch request fails.
BatchCallFails ==
  /\ pc = "batch"
  /\ callLog' = Append(callLog, [req |-> 0, ok |-> FALSE])
  /\ IF TriesMade(callLog, 0) + 1 < Tries(provider)
     THEN UNCHANGED <<pc, cause>>
     ELSE pc' = "peritem" /\ cause' = "fail"
  /\ UNCHANGED <<provider, autoVars, dirVars, writeVars, items, content, results, reqLog, lastItem, segVars, docVars>>

\* score_items: the batch request is answered.
BatchCallAnswers ==
  /\ pc = "batch"
  /\ \E c \in BatchContents(Len(items)) : content' = c
  /\ callLog' = Append(callLog, [req |-> 0, ok |-> TRUE])
  /\ pc' = "parse"
  /\ UNCHANGED <<provider, autoVars, dirVars, writeVars, items, cause, results, reqLog, lastItem, segVars, docVars>>

\* score_items: the try block over the batch answer.
BatchParse ==
  /\ pc = "parse"
  /\ LET p == load_json(content)
         e == ensured(content.elems, items)
     IN IF p.raises
        THEN pc' = "peritem" /\ cause' = "raised" /\ content' = NoContent
             /\ UNCHANGED results
        ELSE IF p.type # "list"
        THEN pc' = "peritem" /\ cause' = "notlist" /\ content' = NoContent
             /\ UNCHANGED results
        ELSE IF \E i \in 1..Len(items) : e[i].raises
        THEN pc' = "peritem" /\ cause' = "listraised" /\ content' = NoContent
             /\ UNCHANGED results
        ELSE pc' = "done" /\ results' = [i \in 1..Len(items) |-> ResultOf(e[i])]
             /\ UNCHANGED <<cause, content>>
  /\ UNCHANGED <<provider, autoVars, dirVars, writeVars, items, callLog, reqLog, lastItem, segVars, docVars>>

\* The item the per-item loop is at.
CurIdx == Len(results) + 1

\* Appending one per-item result and leaving the loop after the last.
Emit(r) ==
  /\ IF r.raises
     THEN pc' = "escaped" /\ UNCHANGED results
     ELSE /\ results' = Append(results, ResultOf(r))
          /\ pc' = IF Len(results) + 1 = Len(items) THEN "done" ELSE "peritem"

\* score_item(items[CurIdx]): one call fails.
ItemCallFails ==
  /\ pc = "peritem"
  /\ callLog' = Append(callLog, [req |-> CurIdx, ok |-> FALSE])
  /\ reqLog' = IF TriesMade(callLog, CurIdx) = 0 THEN Append(reqLog, CurIdx) ELSE reqLog
  /\ IF TriesMade(callLog, CurIdx) + 1 < Tries(provider)
     THEN UNCHANGED <<pc, results, lastItem>>
     ELSE Emit(score_item_failed(items[CurIdx])) /\ lastItem' = NoContent
  /\ UNCHANGED <<provider, autoVars, dirVars, writeVars, items, content, cause, segVars, docVars>>

\* score_item(items[CurIdx]): the call is answered and the answer parsed.
ItemCallAnswers ==
  /\ pc = "peritem"
  /\ callLog' = Append(callLog, [req |-> CurIdx, ok |-> TRUE])
  /\ reqLog' = IF TriesMade(callLog, CurIdx) = 0 THEN Append(reqLog, CurIdx) ELSE reqLog
  /\ \E c \in ItemContents(Len(items)) :
       /\ lastItem' = c
       /\ Emit(score_item_parsed(c, items[CurIdx]))
  /\ UNCHANGED <<provider, autoVars, dirVars, writeVars, items, content, cause, segVars, docVars>>

GradeNext ==
  \/ BatchCallFails
  \/ BatchCallAnswers
  \/ BatchParse
  \/ ItemCallFails
  \/ ItemCallAnswers

SpecGrade == GradeInit /\ [][GradeNext]_vars

\* ------------------------------------------- segment_items_from_content
\* The number of items the caller may ask for.
MaxExpected == 4
\* The number of elements of a list parsed from the model's answer.
MaxSegs == 3

\* The values of WORDREPORTCHECK_SEGMENT_RETRY: unset, not an integer
\* literal, or an integer.
RetryEnvs ==
  {UnsetEnv, [set |-> TRUE, int |-> FALSE, v |-> 0]}
  \cup { [set |-> TRUE, int |-> TRUE, v |-> k] : k \in {-1, 0, 2, 4, 9} }

DEFAULT_RETRY == 3

RETRY_CAP == 5

Min(a, b) == IF a < b THEN a ELSE b

Max(a, b) == IF a > b THEN a ELSE b

\* attempts without the cap of 5.
attempts_of_uncapped(e) ==
  LET parsed == IF e.set /\ e.int THEN e.v ELSE DEFAULT_RETRY
  IN Max(1, parsed)

\* attempts = max(1, min(int(os.getenv(..., "3")), 5)), 3 when int() raises.
attempts_of(e) ==
  LET parsed == IF e.set /\ e.int THEN e.v ELSE DEFAULT_RETRY
  IN Max(1, Min(parsed, RETRY_CAP))

\* An element of the parsed list: the lengths of its requirement, method,
\* code and answer texts; mbad: the method value is truthy but has no len()
\* (a number); id: IdAbsent when the element gives none.
Seg(isd, i, ql, ml, cl, al, bad) ==
  [isdict |-> isd, id |-> i, q |-> ql, m |-> ml, c |-> cl, a |-> al, mbad |-> bad]

SegShapes ==
  { Seg(FALSE, IdAbsent, 0, 0, 0, 0, FALSE),
    Seg(TRUE, IdAbsent, 0, 0, 0, 0, FALSE),
    Seg(TRUE, IdAbsent, 5, 10, 0, 0, FALSE),
    Seg(TRUE, IdForeign, 5, 10, 0, 7, FALSE),
    Seg(TRUE, IdForeign, 5, 120, 0, 0, FALSE),
    Seg(TRUE, IdAbsent, 5, 0, 100, 0, FALSE),
    Seg(TRUE, IdAbsent, 0, 0, 0, 60, FALSE),
    Seg(TRUE, IdAbsent, 5, 1, 100, 0, TRUE) }

\* _length_of(x)
length_of(x) == IF x.isdict THEN x.q + x.m + x.c + x.a ELSE 0

\* _split_by_lines(text), on a text of one line: the two lengths.
split_by_lines(n) == LET mid == Max(1, n \div 2) IN <<mid, n - mid>>

\* idx_long: the first segment of the greatest _length_of.
idx_long(work) ==
  CHOOSE i \in 1..Len(work) :
    /\ \A j \in 1..Len(work) : length_of(work[j]) <= length_of(work[i])
    /\ \A j \in 1..(i - 1) : length_of(work[j]) < length_of(work[i])

\* work.pop(idx)
Pop(work, i) == [j \in 1..(Len(work) - 1) |-> IF j < i THEN work[j] ELSE work[j + 1]]

\* The two parts the repair pass puts in place of seg (which is a dict here).
split_parts(seg) ==
  IF seg.m > 50
  THEN LET h == split_by_lines(seg.m)
       IN << Seg(TRUE, IdAbsent, seg.q, h[1], seg.c, seg.a, FALSE),
             Seg(TRUE, IdAbsent, seg.q, h[2], seg.c, seg.a, FALSE) >>
  ELSE IF seg.c > 80
  THEN LET h == split_by_lines(seg.c)
       IN << Seg(TRUE, IdAbsent, seg.q, seg.m, h[1], seg.a, FALSE),
             Seg(TRUE, IdAbsent, seg.q, seg.m, h[2], seg.a, FALSE) >>
  ELSE IF seg.a > 50
  THEN LET h == split_by_lines(seg.a)
       IN << Seg(TRUE, IdAbsent, seg.q, seg.m, seg.c, h[1], FALSE),
             Seg(TRUE, IdAbsent, seg.q, seg.m, seg.c, h[2], FALSE) >>
  ELSE << seg, Seg(TRUE, IdAbsent, seg.q, seg.m, seg.c, 0, FALSE) >>

\* The while loop of the repair pass (deepseek), on the working list:
\* [raises, parsed]; parsed is the list `parsed` names when the loop ends or
\* raises. In the first round that is the list as parsed (orig); after it,
\* it is the working list itself, so a round that raises leaves it with the
\* popped segment gone.
RECURSIVE repair_loop(_, _, _, _)
repair_loop(work, first, orig, expected) ==
  IF Len(work) = 0 THEN [raises |-> FALSE, parsed |-> IF first THEN orig ELSE work]
  ELSE
    LET i == idx_long(work)
        seg0 == work[i]
        seg == IF seg0.isdict THEN seg0 ELSE Seg(TRUE, IdAbsent, 0, 0, 0, 0, FALSE)
        popped == Pop(work, i)
    IN IF seg.mbad
       THEN [raises |-> TRUE, parsed |-> IF first THEN orig ELSE popped]
       ELSE LET grown == popped \o split_parts(seg)
            IN IF Len(grown) >= expected
               THEN [raises |-> FALSE, parsed |-> SubSeq(grown, 1, expected)]
               ELSE repair_loop(grown, FALSE, orig, expected)

\* The count check left out: whatever list was parsed is accepted.
reconcile_any_length(p, segs, expected) ==
  [ok |-> TRUE, parsed |-> segs, last_len |-> <<>>]

\* The count check recording no count on a mismatch.
reconcile_forgets_len(p, segs, expected) ==
  IF Len(segs) = expected THEN [ok |-> TRUE, parsed |-> segs, last_len |-> <<>>]
  ELSE [ok |-> FALSE, parsed |-> segs, last_len |-> <<>>]

\* The count check of one attempt on a parsed list: [ok, parsed, last_len].
\* deepseek repairs a list that is too short; kimi raises on any mismatch.
reconcile(p, segs, expected) ==
  IF Len(segs) = expected THEN [ok |-> TRUE, parsed |-> segs, last_len |-> <<>>]
  ELSE IF p = "kimi" \/ Len(segs) > expected \/ Len(segs) = 0
  THEN [ok |-> FALSE, parsed |-> segs, last_len |-> <<Len(segs)>>]
  ELSE LET r == repair_loop(segs, TRUE, segs, expected)
       IN IF ~r.raises /\ Len(r.parsed) = expected
          THEN [ok |-> TRUE, parsed |-> r.parsed, last_len |-> <<>>]
          ELSE [ok |-> FALSE, parsed |-> r.parsed, last_len |-> <<Len(r.parsed)>>]

\* The id given to an element without one: "Q<n>" (kimi), "题目<n>" (deepseek).
TimuNames == <<"Timu1", "Timu2", "Timu3", "Timu4", "Timu5", "Timu6">>

default_id(p, n) == IF p = "kimi" THEN QId(n) ELSE TimuNames[n]

\* The ReportItem list built from a parsed list of the expected length.
build_items(p, parsed) ==
  [idx \in 1..Len(parsed) |->
     LET x == parsed[idx]
     IN [id |-> IF x.isdict /\ x.id # IdAbsent THEN x.id ELSE default_id(p, idx),
         q |-> IF x.isdict THEN x.q ELSE 0,
         m |-> IF x.isdict THEN x.m ELSE 0,
         c |-> IF x.isdict THEN x.c ELSE 0]]

SegInit ==
  /\ AutoIdle
  /\ DirIdle
  /\ WriteIdle
  /\ GradeIdle
  /\ DocIdle
  /\ provider \in {"deepseek", "kimi"}
  /\ expected_count \in 1..MaxExpected
  /\ retryEnv \in RetryEnvs
  /\ attempt = 0
  /\ last_len = <<>>
  /\ segPc = "loop"
  /\ result_items = <<>>
  /\ segErr = NoErr
  /\ segCalls = 0
  /\ lastAnswer = NoAnswer

\* One attempt whose call fails: resp is None.
AttemptCallFails ==
  /\ segPc = "loop"
  /\ attempt < attempts_of(retryEnv)
  /\ attempt' = attempt + 1
  /\ segCalls' = segCalls + 1
  /\ last_len' = <<>>
  /\ lastAnswer' = [kind |-> "fail", n |-> 0]
  /\ UNCHANGED <<provider, autoVars, dirVars, writeVars, docVars, gradeVars, expected_count, retryEnv, segPc, result_items, segErr>>

\* One attempt whose answer yields no list.
AttemptNoList ==
  /\ segPc = "loop"
  /\ attempt < attempts_of(retryEnv)
  /\ attempt' = attempt + 1
  /\ segCalls' = segCalls + 1
  /\ last_len' = <<>>
  /\ lastAnswer' = [kind |-> "nonlist", n |-> 0]
  /\ UNCHANGED <<provider, autoVars, dirVars, writeVars, docVars, gradeVars, expected_count, retryEnv, segPc, result_items, segErr>>

\* One attempt whose answer yields a list.
AttemptList ==
  /\ segPc = "loop"
  /\ attempt < attempts_of(retryEnv)
  /\ attempt' = attempt + 1
  /\ segCalls' = segCalls + 1
  /\ \E g \in SeqsUpTo(SegShapes, MaxSegs) :
       LET r == reconcile(provider, g, expected_count)
       IN /\ lastAnswer' = [kind |-> "list", n |-> Len(g)]
          /\ IF r.ok
             THEN /\ result_items' = build_items(provider, r.parsed)
                  /\ segPc' = "returned"
                  /\ UNCHANGED last_len
             ELSE /\ last_len' = r.last_len
                  /\ UNCHANGED <<result_items, segPc>>
  /\ UNCHANGED <<provider, autoVars, dirVars, writeVars, docVars, gradeVars, expected_count, retryEnv, segErr>>

\* The loop is over without a return: the ValueError after it.
Exhausted ==
  /\ segPc = "loop"
  /\ attempt >= attempts_of(retryEnv)
  /\ segPc' = "raised"
  /\ segErr' = IF last_len = <<>> THEN NoErr
               ELSE [counts |-> TRUE, expected |-> expected_count, actual |-> last_len[1]]
  /\ UNCHANGED <<provider, autoVars, dirVars, writeVars, docVars, gradeVars, expected_count, retryEnv, attempt, last_len,
                 result_items, segCalls, lastAnswer>>

SegNext ==
  \/ AttemptCallFails
  \/ AttemptNoList
  \/ AttemptList
  \/ Exhausted

SpecSeg == SegInit /\ [][SegNext]_vars

\* ------------------------------------------ _parse_content_items, as a run
LocalInit ==
  /\ AutoIdle
  /\ DirIdle
  /\ WriteIdle
  /\ GradeIdle
  /\ SegIdle
  /\ TmplIdle
  /\ ParseIdle
  /\ provider = "none"
  /\ content_text \in SeqsUpTo(Lines, MaxLines)
  /\ local_expected \in 0..MaxWant
  /\ local_items = <<>>
  /\ localPc = "call"

\* The call of _parse_content_items(content_text, expected_count).
ParseContentItems ==
  /\ localPc = "call"
  /\ local_items' = parse_content_items(content_text, local_expected)
  /\ localPc' = "returned"
  /\ UNCHANGED <<provider, autoVars, dirVars, writeVars, gradeVars, segVars, tmplVars, parseVars, content_text,
                 local_expected>>

LocalNext == ParseContentItems

SpecLocal == LocalInit /\ [][LocalNext]_vars

\* --------------------------------------------- _parse_by_template, as a run
TmplInit ==
  /\ AutoIdle
  /\ DirIdle
  /\ WriteIdle
  /\ GradeIdle
  /\ SegIdle
  /\ LocalIdle
  /\ ParseIdle
  /\ provider = "none"
  /\ has_grid_span \in BOOLEAN
  /\ row_idx = 0
  /\ row = <<>>
  /\ filled = 0
  /\ report = EmptyReport
  /\ content_started = FALSE
  /\ analys_row_idx = <<>>
  /\ content_buffer = <<>>
  /\ tmplPc = "open"
  /\ tmplResult = "none"

\* The document has no table: None.
NoTables ==
  /\ tmplPc = "open"
  /\ tmplPc' = "returned"
  /\ tmplResult' = "none"
  /\ UNCHANGED <<provider, autoVars, dirVars, writeVars, gradeVars, segVars, localVars, parseVars, has_grid_span, row_idx, row,
                 filled, report, content_started, analys_row_idx, content_buffer>>

\* The document has a table: its rows are walked.
OpenTable ==
  /\ tmplPc = "open"
  /\ tmplPc' = "scan"
  /\ UNCHANGED <<provider, autoVars, dirVars, writeVars, gradeVars, segVars, localVars, parseVars, has_grid_span, row_idx, row,
                 filled, report, content_started, analys_row_idx, content_buffer,
                 tmplResult>>

\* One turn of the row loop, on the next row of the table.
ScanRow ==
  /\ tmplPc = "scan"
  /\ row_idx < MaxRows
  /\ \E r \in RowShapes :
       /\ r # BlankRow => filled < MaxFilled
       /\ row' = r
       /\ filled' = IF r = BlankRow THEN filled ELSE filled + 1
       /\ LET st == scan_row([report |-> report, content_started |-> content_started,
                              analys_row_idx |-> analys_row_idx,
                              content_buffer |-> content_buffer],
                             r, row_idx, has_grid_span)
          IN /\ report' = st.report
             /\ content_started' = st.content_started
             /\ analys_row_idx' = st.analys_row_idx
             /\ content_buffer' = st.content_buffer
  /\ row_idx' = row_idx + 1
  /\ UNCHANGED <<provider, autoVars, dirVars, writeVars, gradeVars, segVars, localVars, parseVars, has_grid_span, tmplPc, tmplResult>>

\* The rows are over (at once when the table has none): the raw content is
\* stored and has_any decides between the record and None.
Finish ==
  /\ tmplPc = "scan"
  /\ report' = with_content(report, content_buffer)
  /\ tmplResult' = IF has_any(report') THEN "report" ELSE "none"
  /\ tmplPc' = "returned"
  /\ UNCHANGED <<provider, autoVars, dirVars, writeVars, gradeVars, segVars, localVars, parseVars, has_grid_span, row_idx, row,
                 filled, content_started, analys_row_idx, content_buffer>>

TmplNext ==
  \/ NoTables
  \/ OpenTable
  \/ ScanRow
  \/ Finish

SpecTmpl == TmplInit /\ [][TmplNext]_vars

\* ------------------------------------------- parse_docx_to_report, as a run
DocInit ==
  /\ AutoIdle
  /\ DirIdle
  /\ WriteIdle
  /\ GradeIdle
  /\ SegIdle
  /\ LocalIdle
  /\ provider = "none"
  /\ has_grid_span \in BOOLEAN
  /\ row_idx = 0
  /\ row = <<>>
  /\ filled = 0
  /\ report = EmptyReport
  /\ content_started = FALSE
  /\ analys_row_idx = <<>>
  /\ content_buffer = <<>>
  /\ tmplPc = "idle"
  /\ tmplResult = "none"
  /\ doc \in Docs
  /\ docPc = "template"
  /\ tmpl_matched = FALSE
  /\ doc_path = ""
  /\ fb_idx = 0
  /\ doc_report = EmptyReport
  /\ content_accumulator = <<>>

\* tmpl_report = _parse_by_template(doc): returned when it is a record, else
\* the fallback starts from an empty record.
TemplatePass ==
  /\ docPc = "template"
  /\ LET t == parse_by_template(doc, has_grid_span)
     IN /\ tmpl_matched' = t.matched
        /\ IF t.matched
           THEN doc_report' = t.report /\ docPc' = "returned" /\ doc_path' = "template"
           ELSE doc_report' = EmptyReport /\ docPc' = "fallback" /\ doc_path' = "fallback"
  /\ UNCHANGED <<provider, autoVars, dirVars, writeVars, gradeVars, segVars, localVars, tmplVars, doc, fb_idx,
                 content_accumulator>>

\* One turn of the fallback's loops over the tables and their rows.
FallbackRow ==
  /\ docPc = "fallback"
  /\ fb_idx < Len(all_rows(doc))
  /\ LET f == fallback_assign(doc_report, content_accumulator, all_rows(doc)[fb_idx + 1])
     IN doc_report' = f.report /\ content_accumulator' = f.acc
  /\ fb_idx' = fb_idx + 1
  /\ UNCHANGED <<provider, autoVars, dirVars, writeVars, gradeVars, segVars, localVars, tmplVars, doc, docPc,
                 tmpl_matched, doc_path>>

\* The fallback's loops are over: the raw content is stored, the record returned.
FallbackReturn ==
  /\ docPc = "fallback"
  /\ fb_idx >= Len(all_rows(doc))
  /\ doc_report' = fallback_content(doc_report, content_accumulator)
  /\ docPc' = "returned"
  /\ UNCHANGED <<provider, autoVars, dirVars, writeVars, gradeVars, segVars, localVars, tmplVars, doc, tmpl_matched,
                 doc_path, fb_idx, content_accumulator>>

\* The caller's segmentation step (cli.main): the record has no items and
\* has raw content, which _parse_content_items cuts into seg_count items.
SegmentCall ==
  /\ docPc = "returned"
  /\ doc_report.content_items = <<>>
  /\ doc_report.raw_content.rows # <<>>
  /\ \E n \in 0..MaxWant :
       doc_report' = [doc_report EXCEPT !.content_items =
                        parse_content_items(lines_of(doc_report.raw_content.rows), n)]
  /\ docPc' = "segmented"
  /\ UNCHANGED <<provider, autoVars, dirVars, writeVars, gradeVars, segVars, localVars, tmplVars, doc, tmpl_matched,
                 doc_path, fb_idx, content_accumulator>>

\* The caller's segmentation step without raw content: the run stops.
SegmentRefused ==
  /\ docPc = "returned"
  /\ doc_report.content_items = <<>>
  /\ doc_report.raw_content.rows = <<>>
  /\ docPc' = "stopped"
  /\ UNCHANGED <<provider, autoVars, dirVars, writeVars, gradeVars, segVars, localVars, tmplVars, doc, tmpl_matched,
                 doc_path, fb_idx, doc_report, content_accumulator>>

DocNext ==
  \/ TemplatePass
  \/ FallbackRow
  \/ FallbackReturn
  \/ SegmentCall
  \/ SegmentRefused

SpecDoc == DocInit /\ [][DocNext]_vars

\* ------------------------------------------- write_grade_and_date, as a run
WriteInit ==
  /\ AutoIdle
  /\ DirIdle
  /\ GradeIdle
  /\ SegIdle
  /\ LocalIdle
  /\ TmplIdle
  /\ ParseIdle
  /\ provider = "none"
  /\ disk \in WriteDocs
  /\ wdoc = <<>>
  /\ wPc = "open"
  /\ w_table = 0
  /\ wrote_any = FALSE
  /\ w_result = FALSE
  /\ writes = <<>>
  /\ write_failed = FALSE
  /\ saves = 0
  /\ original = disk

\* Document(str(doc_path)) raises: False.
OpenFails ==
  /\ wPc = "open"
  /\ wPc' = "returned"
  /\ w_result' = FALSE
  /\ UNCHANGED <<provider, autoVars, dirVars, gradeVars, segVars, docVars, original, wdoc, disk, w_table, wrote_any,
                 writes, write_failed, saves>>

\* The document is opened.
OpenDoc ==
  /\ wPc = "open"
  /\ wdoc' = disk
  /\ w_table' = 1
  /\ wPc' = IF disk = <<>> THEN "save" ELSE "grade"
  /\ UNCHANGED <<provider, autoVars, dirVars, gradeVars, segVars, docVars, original, disk, wrote_any, w_result,
                 writes, write_failed, saves>>

\* The grade of the table at hand: the value cell of the grade label, if
\* there is one, gets the grade.
WriteGrade ==
  /\ wPc = "grade"
  /\ LET loc == find_label_row_and_value_cell(wdoc[w_table], "grade", TRUE)
     IN IF loc.found
        THEN /\ wdoc' = [wdoc EXCEPT ![w_table] =
                           set_cell_text(@, loc.row, loc.raw_idx, GradeText)]
             /\ wrote_any' = TRUE
             /\ writes' = Append(writes, [label |-> "grade", table |-> w_table,
                                          row |-> loc.row, vis |-> loc.vis,
                                          target |-> loc.target])
        ELSE UNCHANGED <<wdoc, wrote_any, writes>>
  /\ wPc' = "date"
  /\ UNCHANGED <<provider, autoVars, dirVars, gradeVars, segVars, docVars, original, disk, w_table, w_result,
                 write_failed, saves>>

\* The assignment of the grade raises: it is passed over.
WriteGradeRaises ==
  /\ wPc = "grade"
  /\ find_label_row_and_value_cell(wdoc[w_table], "grade", TRUE).found
  /\ write_failed' = TRUE
  /\ wPc' = "date"
  /\ UNCHANGED <<provider, autoVars, dirVars, gradeVars, segVars, docVars, original, wdoc, disk, w_table, wrote_any,
                 w_result, writes, saves>>

\* The date of the table at hand, then the next table.
WriteDate ==
  /\ wPc = "date"
  /\ LET loc == find_label_row_and_value_cell(wdoc[w_table], "date", FALSE)
     IN IF loc.found
        THEN /\ wdoc' = [wdoc EXCEPT ![w_table] =
                           set_cell_text(@, loc.row, loc.raw_idx, DateText)]
             /\ wrote_any' = TRUE
             /\ writes' = Append(writes, [label |-> "date", table |-> w_table,
                                          row |-> loc.row, vis |-> loc.vis,
                                          target |-> loc.target])
        ELSE UNCHANGED <<wdoc, wrote_any, writes>>
  /\ w_table' = w_table + 1
  /\ wPc' = IF w_table + 1 > Len(wdoc) THEN "save" ELSE "grade"
  /\ UNCHANGED <<provider, autoVars, dirVars, gradeVars, segVars, docVars, original, disk, w_result, write_failed,
                 saves>>

\* The assignment of the date raises: it is passed over.
WriteDateRaises ==
  /\ wPc = "date"
  /\ find_label_row_and_value_cell(wdoc[w_table], "date", FALSE).found
  /\ write_failed' = TRUE
  /\ w_table' = w_table + 1
  /\ wPc' = IF w_table + 1 > Len(wdoc) THEN "save" ELSE "grade"
  /\ UNCHANGED <<provider, autoVars, dirVars, gradeVars, segVars, docVars, original, wdoc, disk, wrote_any, w_result,
                 writes, saves>>

\* doc.save after a write, and the return of wrote_any.
SaveDoc ==
  /\ wPc = "save"
  /\ save_needed(wrote_any)
  /\ disk' = wdoc
  /\ saves' = saves + 1
  /\ w_result' = wrote_any
  /\ wPc' = "returned"
  /\ UNCHANGED <<provider, autoVars, dirVars, gradeVars, segVars, docVars, original, wdoc, w_table, wrote_any, writes,
                 write_failed>>

\* doc.save raises: False.
SaveFails ==
  /\ wPc = "save"
  /\ save_needed(wrote_any)
  /\ w_result' = FALSE
  /\ wPc' = "returned"
  /\ UNCHANGED <<provider, autoVars, dirVars, gradeVars, segVars, docVars, original, wdoc, disk, w_table, wrote_any,
                 writes, write_failed, saves>>

\* Nothing was written: no save, and wrote_any is returned.
ReturnUnsaved ==
  /\ wPc = "save"
  /\ ~save_needed(wrote_any)
  /\ w_result' = wrote_any
  /\ wPc' = "returned"
  /\ UNCHANGED <<provider, autoVars, dirVars, gradeVars, segVars, docVars, original, wdoc, disk, w_table, wrote_any,
                 writes, write_failed, saves>>

WriteNext ==
  \/ OpenFails
  \/ OpenDoc
  \/ WriteGrade
  \/ WriteGradeRaises
  \/ WriteDate
  \/ WriteDateRaises
  \/ SaveDoc
  \/ SaveFails
  \/ ReturnUnsaved

SpecWrite == WriteInit /\ [][WriteNext]_vars

\* --------------------------------------------------- the auto command, a run
TheDoc == <<"in", "a">>

AutoInit ==
  /\ GradeIdle
  /\ SegIdle
  /\ DocIdle
  /\ WriteIdle
  /\ DirIdle
  /\ provider = "none"
  /\ auto_pc = "start"
  /\ rc = -1
  /\ out_choice \in {"default", "same", "other"}
  /\ want \in 1..MaxWant
  /\ rec \in { [grade |-> g, name |-> "n", raw |-> l, items |-> <<>>] :
                 g \in {Unset, "old"}, l \in SeqsUpTo(Lines, MaxAutoLines) }
  /\ json_file = NoFile
  /\ avg = <<>>
  /\ io_failed = FALSE
  /\ files = [p \in {TheDoc, <<"out", "a">>} |-> IF p = TheDoc THEN Source(p) ELSE Absent]

\* The document is not found, or the output directory cannot be made: 2 is
\* returned.
AutoRefused ==
  /\ auto_pc = "start"
  /\ rc' = 2
  /\ io_failed' = TRUE
  /\ auto_pc' = "returned"
  /\ UNCHANGED <<provider, gradeVars, segVars, docVars, writeVars, dirVars, out_choice,
                 want, rec, json_file, avg, files>>

\* json_path.write_text(...) of the record: the file holds it, or the write
\* raises and the file is as it was.
JsonWritten(r) ==
  \/ json_file' = [present |-> TRUE, obj |-> to_json_obj(r)] /\ io_failed' = io_failed
  \/ json_file' = json_file /\ io_failed' = TRUE

\* The record parsed from the document is written as JSON.
AutoParse ==
  /\ auto_pc = "start"
  /\ JsonWritten(rec)
  /\ auto_pc' = "parsed"
  /\ UNCHANGED <<provider, gradeVars, segVars, docVars, writeVars, dirVars, rc, out_choice,
                 want, rec, avg, files>>

\* No raw content: nothing to segment, 2 is returned.
AutoNoContent ==
  /\ auto_pc = "parsed"
  /\ strip_lines(rec.raw) = <<>>
  /\ rc' = 2
  /\ auto_pc' = "returned"
  /\ UNCHANGED <<provider, gradeVars, segVars, docVars, writeVars, dirVars, out_choice,
                 want, rec, json_file, avg, files, io_failed>>

\* The raw content is segmented and the record written again.
AutoSegment ==
  /\ auto_pc = "parsed"
  /\ strip_lines(rec.raw) # <<>>
  /\ rec' = [rec EXCEPT !.items = parse_content_items(rec.raw, want)]
  /\ JsonWritten(rec')
  /\ auto_pc' = "segmented"
  /\ UNCHANGED <<provider, gradeVars, segVars, docVars, writeVars, dirVars, rc, out_choice,
                 want, avg, files>>

\* No API key: 2 is returned.
AutoNoKey ==
  /\ auto_pc = "segmented"
  /\ rc' = 2
  /\ auto_pc' = "returned"
  /\ UNCHANGED <<provider, gradeVars, segVars, docVars, writeVars, dirVars, out_choice,
                 want, rec, json_file, avg, files, io_failed>>

\* The items are graded: an average, or none when no result has a score.
AutoScore ==
  /\ auto_pc = "segmented"
  /\ avg' \in {<<>>, <<AvgText>>}
  /\ auto_pc' = "scored"
  /\ UNCHANGED <<provider, gradeVars, segVars, docVars, writeVars, dirVars, rc, out_choice,
                 want, rec, json_file, files, io_failed>>

\* The average is stored: the JSON file is read back, its grade set, and
\* written again; a file that is not there makes the read raise, which is
\* printed and passed over.
AutoStore ==
  /\ auto_pc = "scored"
  /\ avg # <<>>
  /\ IF json_file.present
     THEN JsonWritten([report_from_json(json_file.obj) EXCEPT !.grade = avg[1]])
     ELSE UNCHANGED <<json_file, io_failed>>
  /\ auto_pc' = "stored"
  /\ UNCHANGED <<provider, gradeVars, segVars, docVars, writeVars, dirVars, rc, out_choice,
                 want, rec, avg, files>>

\* No average: nothing is stored or written back, 0 is returned.
AutoNoAverage ==
  /\ auto_pc = "scored"
  /\ avg = <<>>
  /\ rc' = 0
  /\ auto_pc' = "returned"
  /\ UNCHANGED <<provider, gradeVars, segVars, docVars, writeVars, dirVars, out_choice,
                 want, rec, json_file, avg, files, io_failed>>

\* shutil.copy2 raises, as it does when the output directory is the one of
\* the document: 2 is returned.
AutoCopyFails ==
  /\ auto_pc = "stored"
  /\ \/ same_file(TheDoc, <<dir_of_out(out_choice), TheDoc[2]>>) /\ io_failed' = io_failed
     \/ ~same_file(TheDoc, <<dir_of_out(out_choice), TheDoc[2]>>) /\ io_failed' = TRUE
  /\ rc' = 2
  /\ auto_pc' = "returned"
  /\ UNCHANGED <<provider, gradeVars, segVars, docVars, writeVars, dirVars, out_choice,
                 want, rec, json_file, avg, files>>

\* The document is copied to the output directory and the grade is written
\* into the copy, if write_grade_and_date finds a cell for it: 0 is returned.
AutoWriteBack ==
  /\ auto_pc = "stored"
  /\ ~same_file(TheDoc, <<dir_of_out(out_choice), TheDoc[2]>>)
  /\ \E ok \in BOOLEAN :
       files' = [files EXCEPT ![<<dir_of_out(out_choice), TheDoc[2]>>] =
                   [present |-> TRUE, of |-> files[TheDoc].of, graded |-> ok]]
  /\ rc' = 0
  /\ auto_pc' = "returned"
  /\ UNCHANGED <<provider, gradeVars, segVars, docVars, writeVars, dirVars, out_choice,
                 want, rec, json_file, avg, io_failed>>

AutoNext ==
  \/ AutoRefused
  \/ AutoParse
  \/ AutoNoContent
  \/ AutoSegment
  \/ AutoNoKey
  \/ AutoScore
  \/ AutoStore
  \/ AutoNoAverage
  \/ AutoCopyFails
  \/ AutoWriteBack

SpecAuto == AutoInit /\ [][AutoNext]_vars

\* ------------------------------------------------ the auto-dir command, a run
\* The documents of the tree under the input directory "in".
TreeDocs == {<<"in", "a">>, <<"in", "b">>, <<"in/sub", "a">>}

\* The paths of the tree and of the output directory.
DirPaths == {<<d, n>> : d \in {"in", "in/sub", "out"}, n \in {"a", "b"}}

\* The lists of documents that glob (directly under "in") or rglob (at any
\* depth) may give for a tree: the documents found, in any order.
Listings(tree, recursive) ==
  LET found == {p \in tree : recursive \/ p[1] = "in"}
  IN {l \in SeqsUpTo(found, Cardinality(found)) :
        Len(l) = Cardinality(found) /\ \A p \in found : \E k \in 1..Len(l) : l[k] = p}

\* A variant that leaves a document whose copy failed out of both counts.
tally_skips_copy_failure(outcome) ==
  IF outcome = "done" THEN <<1, 0>>
  ELSE IF outcome = "copy failed" THEN <<0, 0>>
  ELSE <<0, 1>>

\* What a document adds to (total, failed): total += 1 where the turn runs to
\* its end, failed += 1 on every way out of it.
tally(outcome) == IF outcome = "done" THEN <<1, 0>> ELSE <<0, 1>>

DirInit ==
  /\ GradeIdle
  /\ SegIdle
  /\ DocIdle
  /\ WriteIdle
  /\ AutoIdle
  /\ provider = "none"
  /\ dir_pc = "start"
  /\ dir_out \in {"in", "in/sub", "out"}
  /\ \E tree \in SUBSET TreeDocs, recursive \in BOOLEAN :
       /\ dir_docs \in Listings(tree, recursive)
       /\ dir_files = [p \in DirPaths |-> IF p \in tree THEN Source(p) ELSE Absent]
  /\ dir_idx = 0
  /\ total = 0
  /\ failed = 0
  /\ handled = <<>>

\* The document of this turn of the loop, and the path of its copy.
CurDoc == dir_docs[dir_idx + 1]
OutDocx == <<dir_out, CurDoc[2]>>

\* The end of a turn with an outcome: the counts, the next document.
TurnEnds(outcome) ==
  /\ total' = total + tally(outcome)[1]
  /\ failed' = failed + tally(outcome)[2]
  /\ handled' = Append(handled, [doc |-> CurDoc, outcome |-> outcome])
  /\ dir_idx' = dir_idx + 1
  /\ dir_pc' = "loop"

\* No document found: 0 is returned at once.
DirNoDocs ==
  /\ dir_pc = "start"
  /\ dir_docs = <<>>
  /\ dir_pc' = "done"
  /\ UNCHANGED <<provider, gradeVars, segVars, docVars, writeVars, autoVars, dir_docs,
                 dir_out, dir_idx, total, failed, handled, dir_files>>

\* Documents found: the loop starts.
DirOpen ==
  /\ dir_pc = "start"
  /\ dir_docs # <<>>
  /\ dir_pc' = "loop"
  /\ UNCHANGED <<provider, gradeVars, segVars, docVars, writeVars, autoVars, dir_docs,
                 dir_out, dir_idx, total, failed, handled, dir_files>>

\* A turn that ends early: the document has no raw content to segment, or no
\* items, or there is no API key, or an exception is raised.
DocFails ==
  /\ dir_pc = "loop"
  /\ dir_idx < Len(dir_docs)
  /\ \E why \in {"no content", "no items", "no key", "exception"} : TurnEnds(why)
  /\ UNCHANGED <<provider, gradeVars, segVars, docVars, writeVars, autoVars, dir_docs,
                 dir_out, dir_files>>

\* The document is graded without an average: the turn runs to its end.
DocNoAverage ==
  /\ dir_pc = "loop"
  /\ dir_idx < Len(dir_docs)
  /\ TurnEnds("done")
  /\ UNCHANGED <<provider, gradeVars, segVars, docVars, writeVars, autoVars, dir_docs,
                 dir_out, dir_files>>

\* The document is graded with an average: the copy is next.
DocAverage ==
  /\ dir_pc = "loop"
  /\ dir_idx < Len(dir_docs)
  /\ dir_pc' = "copy"
  /\ UNCHANGED <<provider, gradeVars, segVars, docVars, writeVars, autoVars, dir_docs,
                 dir_out, dir_idx, total, failed, handled, dir_files>>

\* shutil.copy2 raises, as it does when the copy would be the document
\* itself.
DocCopyFails ==
  /\ dir_pc = "copy"
  /\ TurnEnds("copy failed")
  /\ UNCHANGED <<provider, gradeVars, segVars, docVars, writeVars, autoVars, dir_docs,
                 dir_out, dir_files>>

\* The document is copied to the output directory, over whatever file has
\* its name there, and the grade is written into the copy if
\* write_grade_and_date finds a cell for it.
DocWrittenBack ==
  /\ dir_pc = "copy"
  /\ ~same_file(CurDoc, OutDocx)
  /\ \E ok \in BOOLEAN :
       dir_files' = [dir_files EXCEPT ![OutDocx] =
                       [present |-> TRUE, of |-> dir_files[CurDoc].of, graded |-> ok]]
  /\ TurnEnds("done")
  /\ UNCHANGED <<provider, gradeVars, segVars, docVars, writeVars, autoVars, dir_docs,
                 dir_out>>

\* The loop is over: the summary is written and 0 is returned.
DirFinish ==
  /\ dir_pc = "loop"
  /\ dir_idx >= Len(dir_docs)
  /\ dir_pc' = "done"
  /\ UNCHANGED <<provider, gradeVars, segVars, docVars, writeVars, autoVars, dir_docs,
                 dir_out, dir_idx, total, failed, handled, dir_files>>

DirNext ==
  \/ DirNoDocs
  \/ DirOpen
  \/ DocFails
  \/ DocNoAverage
  \/ DocAverage
  \/ DocCopyFails
  \/ DocWrittenBack
  \/ DirFinish

SpecDir == DirInit /\ [][DirNext]_vars

\* ------------------------------------------------------------------ claims
\* The input positions 1..n, in order.
Ident(n) == [i \in 1..n |-> i]

AllCallsFailed == \A k \in 1..Len(callLog) : ~callLog[k].ok

\* C1: grading totality. For every non-empty item list and every sequence of
\* outcomes of the batch call and of the per-item calls (failed call, empty
\* text, text that is no JSON, JSON that is no list, arrays of any length,
\* arrays of non-objects), no exception escapes score_items, and the list it
\* returns has len(items) results, each with a numeric score and a feedback
\* string that is not empty.
C1_GradingTotality ==
  /\ pc # "escaped"
  /\ pc = "done" =>
       /\ Len(results) = Len(items)
       /\ \A i \in 1..Len(results) :
            /\ IsNumber(results[i].score)
            /\ results[i].score.t # "nanfloat"
            /\ results[i].feedback \notin {"", FbNone}
            /\ Strip(results[i].feedback) # ""

\* C1 witness: score_items returned from an array of the wrong length whose
\* aligned element is not an object.
C1_Witness ==
  /\ pc = "done"
  /\ cause = ""
  /\ content.kind = "list"
  /\ Len(content.elems) # Len(items)
  /\ \E j \in 1..Len(content.elems) : ~content.elems[j].isdict
  /\ \E i \in 1..Len(results) : results[i].score.v = FALLBACK_SCORE

\* The array answers the claim C2 is about: every element is a well-formed
\* object {id, score, feedback} for one of the input items, no id twice, and
\* some input item has no element.
PartialAnswer ==
  /\ content.kind = "list"
  /\ \A j \in 1..Len(content.elems) :
       /\ content.elems[j].isdict
       /\ \E i \in 1..Len(items) : content.elems[j].id = items[i]
       /\ content.elems[j].score = ScoreInt
       /\ content.elems[j].fb = FbOk
       /\ \A j2 \in 1..Len(content.elems) :
            content.elems[j2].id = content.elems[j].id => j2 = j
  /\ \E i \in 1..Len(items) : ~HasId(content.elems, items[i])

\* C2: when the batch answer is an array with entries for only some of the
\* input ids, every item whose id is present gets that entry's score and
\* feedback, and every item whose id is missing gets the fallback score 60
\* and the fallback feedback.
C2_MissingIdsGetFallback ==
  (pc = "done" /\ cause = "" /\ PartialAnswer) =>
    \A i \in 1..Len(items) :
      IF HasId(content.elems, items[i])
      THEN /\ results[i].score = by_id(content.elems, items[i]).score
           /\ results[i].feedback = by_id(content.elems, items[i]).fb
      ELSE /\ results[i].score = [t |-> "int", v |-> FALLBACK_SCORE]
           /\ results[i].feedback = FALLBACK_FEEDBACK

\* Per-item mode hands back what the per-item calls produced: every step of
\* the loop appends the result of the call just made and keeps the rest.
PerItemAppends ==
  (pc = "peritem" /\ Len(results') = Len(results) + 1) =>
    /\ SubSeq(results', 1, Len(results)) = results
    /\ results'[Len(results')].raw = RAW_CALL_FAILED <=> ~callLog'[Len(callLog')].ok
    /\ callLog'[Len(callLog')].req = Len(results')

\* Some element aligned with an input item carries a non-finite float score.
MatchedNaN ==
  \E idx \in 1..Len(items) :
    aligned_obj(content.elems, items[idx], idx).score.t = "nanfloat"

\* C7 as stated: a failed batch call or a payload that is no list leads to
\* per-item mode, which requests every item exactly once, in input order;
\* when the payload is a list, no per-item request is made.
C7_ListNeverPerItem ==
  /\ (pc = "done" /\ cause \in {"fail", "notlist", "raised"}) =>
       (reqLog = Ident(Len(items)) /\ Len(results) = Len(items))
  /\ cause \in {"", "listraised"} => reqLog = <<>>

\* C7 amended: a failed batch call or a payload that is no list leads to
\* per-item mode; per-item mode invokes score_item for every input item
\* exactly once, in input order, and returns those results. When the payload
\* is a list, score_item is invoked only if building a result from the list
\* raises, which is when an element aligned with an input item has a
\* non-finite float score; otherwise no per-item request is made.
C7_PerItemFallback ==
  /\ [](/\ (pc = "done" /\ cause # "") =>
             (reqLog = Ident(Len(items)) /\ Len(results) = Len(items))
        /\ cause = "" => reqLog = <<>>
        /\ pc = "peritem" => (cause # "" /\ reqLog = Ident(Len(reqLog))))
  /\ [][/\ pc = "parse" =>
             /\ (content.kind # "list") = (cause' \in {"notlist", "raised"})
             /\ (content.kind = "list" /\ MatchedNaN) = (cause' = "listraised")
             /\ (content.kind = "list" /\ ~MatchedNaN) = (pc' = "done" /\ cause' = "")
             /\ pc' \in {"peritem", "done"}
             /\ (pc' = "peritem") = (cause' # "")
        /\ (pc = "batch" /\ pc' = "peritem") =>
             (cause' = "fail" /\ ~callLog'[Len(callLog')].ok)
        /\ PerItemAppends]_vars

\* C7 witness: per-item mode ran to the end after a payload that was no list.
C7_Witness ==
  /\ pc = "done"
  /\ cause = "notlist"
  /\ Len(items) > 1
  /\ reqLog = Ident(Len(items))

\* C8: when every model call fails, no exception is raised and every input
\* item gets a result with its own id, the fallback score 60, the placeholder
\* feedback and the diagnostic raw text.
C8_TotalFailure ==
  AllCallsFailed =>
    /\ pc # "escaped"
    /\ pc = "done" =>
         results = [i \in 1..Len(items) |->
                      [id |-> items[i],
                       score |-> [t |-> "int", v |-> FALLBACK_SCORE],
                       feedback |-> FALLBACK_FEEDBACK,
                       raw |-> RAW_CALL_FAILED]]

\* C8 witness: score_items returned after every call of the batch request and
\* of every per-item request failed.
C8_Witness ==
  /\ pc = "done"
  /\ AllCallsFailed
  /\ Len(callLog) > Len(items)
  /\ Len(items) > 1

\* A malformed per-item answer: text that is no JSON, JSON of the wrong
\* shape, or an object without a numeric score.
Malformed(c) ==
  \/ c.kind \in {"garbage", "badblock", "scalar", "list"}
  \/ c.kind = "dict" /\ ~IsNumber(c.obj.score)

\* C9: every result synthesized from a malformed model answer carries the
\* diagnostic field raw, in per-item mode and in batch mode.
C9_MalformedFlaggedByRaw ==
  /\ (Len(results) > 0 /\ cause # "" /\ callLog[Len(callLog)].ok /\ Malformed(lastItem)) =>
       results[Len(results)].raw # NoRaw
  /\ (pc = "done" /\ cause = "" /\ content.kind = "list") =>
       \A i \in 1..Len(items) :
         ~IsNumber(aligned_obj(content.elems, items[i], i).score) =>
           results[i].raw # NoRaw

\* C4: whenever segment_items_from_content returns, for either provider and
\* any sequence of answers, the list it returns has exactly expected_count
\* items.
C4_ReturnedCount ==
  segPc = "returned" => Len(result_items) = expected_count

\* C4 witness: a return in a later attempt from an answer that had fewer
\* items than asked for (the repair pass filled it up).
C4_Witness ==
  /\ segPc = "returned"
  /\ attempt > 1
  /\ lastAnswer.kind = "list"
  /\ lastAnswer.n < expected_count
  /\ Len(result_items) = expected_count

\* C5 as stated: the error raised when the attempts are exhausted carries the
\* last observed item count and the expected count, whatever the attempts'
\* outcomes were.
C5_ErrorAlwaysCarriesCounts ==
  segPc = "raised" => (segErr.counts /\ segErr.expected = expected_count)

\* C5 amended: the error raised when the attempts are exhausted carries the
\* expected count and an item count exactly when the last attempt parsed a
\* list of the wrong length (the count is that list's length, or for a list
\* the repair pass gave up on, the length the pass left it with); when the
\* last attempt was a failed call or gave no list, the error carries no
\* count, also after an earlier attempt that observed a wrong count.
C5_ErrorCarriesCountsOfLastList ==
  segPc = "raised" =>
    /\ segErr.counts = (lastAnswer.kind = "list")
    /\ segErr.counts =>
         /\ segErr.expected = expected_count
         /\ segErr.actual # expected_count
         /\ (provider = "kimi" \/ lastAnswer.n > expected_count \/ lastAnswer.n = 0)
              => segErr.actual = lastAnswer.n
         /\ (provider = "deepseek" /\ lastAnswer.n > 0 /\ lastAnswer.n < expected_count)
              => (lastAnswer.n <= segErr.actual /\ segErr.actual < expected_count)

\* C5 witness: the error after three attempts, the last of which parsed a
\* list of the wrong length.
C5_Witness ==
  /\ segPc = "raised"
  /\ attempt = DEFAULT_RETRY
  /\ segErr.counts
  /\ segErr.actual = lastAnswer.n

\* The retry count of the claim: WORDREPORTCHECK_SEGMENT_RETRY, 3 when unset
\* or no integer, brought into 1..5.
ClaimedAttempts ==
  IF retryEnv.set /\ retryEnv.int
  THEN (IF retryEnv.v < 1 THEN 1 ELSE IF retryEnv.v > 5 THEN 5 ELSE retryEnv.v)
  ELSE 3

\* C6: segment_items_from_content makes at most N model calls, N being the
\* configured retry count (default 3, a non-integer counts as 3) brought
\* into 1..5; after the N-th attempt without success it raises and calls no
\* more.
C6_BoundedCalls ==
  /\ segCalls <= ClaimedAttempts
  /\ segCalls = attempt
  /\ segPc = "raised" => segCalls = ClaimedAttempts
  /\ (segPc = "loop" /\ segCalls = ClaimedAttempts) =>
       /\ ENABLED Exhausted
       /\ ~ENABLED AttemptCallFails
       /\ ~ENABLED AttemptNoList
       /\ ~ENABLED AttemptList
  /\ (segPc = "loop" /\ segCalls < ClaimedAttempts) => ~ENABLED Exhausted

\* C6 witness: the error after five failed calls, with a configured count
\* above the cap.
C6_Witness ==
  /\ segPc = "raised"
  /\ retryEnv.int
  /\ retryEnv.v > RETRY_CAP
  /\ segCalls = RETRY_CAP
  /\ lastAnswer.kind = "fail"

\* C3: whatever the raw content (empty, without marker, with more or fewer
\* markers than asked for), when expected_count > 0 the local segmenter
\* returns exactly expected_count items: the first segments' items, cut at
\* expected_count, then empty placeholders.
C3_CountLaw ==
  (localPc = "returned" /\ local_expected > 0) =>
    LET its == segment_items(content_text)
        kept == Min(Len(its), local_expected)
    IN /\ Len(local_items) = local_expected
       /\ \A i \in 1..kept : local_items[i] = its[i]
       /\ \A i \in (kept + 1)..local_expected :
            /\ local_items[i].question = ""
            /\ local_items[i].answer = <<>>

\* The text has more boundary markers than items asked for, and the call
\* has returned.
C3_Witness ==
  /\ localPc = "returned"
  /\ local_expected > 0
  /\ Len(segments_of(content_text)) > local_expected
  /\ Cardinality({j \in 1..Len(content_text) : IsMarker(content_text[j])}) > local_expected

AssignedFields ==
  {"college", "major", "term", "name", "student_id", "class", "advisor", "course",
   "week", "experiment", "analysis", "exp_date", "remarks", "grade", "signoff_date"}

KeyFields ==
  {"college", "major", "term", "name", "student_id", "course", "experiment",
   "analysis", "exp_date"}

\* C10, as stated: _parse_by_template returns None exactly when none of the
\* fields it assigns (class, advisor, week, remarks, grade and signoff date
\* included) holds non-empty text and the raw content is empty.
C10_NoneIffNothingRecovered ==
  tmplPc = "returned" =>
    (tmplResult = "none" <=>
       /\ \A f \in AssignedFields : report[f] \in {Unset, ""}
       /\ report.raw_content.rows = <<>>)

\* C10, amended: _parse_by_template returns None exactly when none of the
\* nine key fields (college, major, term, name, student id, course,
\* experiment name, analysis, experiment date) holds non-empty text and the
\* stripped raw content is empty; class, advisor, week, remarks, grade and
\* signoff date do not count.
C10_NoneIffNoKeyField ==
  tmplPc = "returned" =>
    (tmplResult = "none" <=>
       /\ \A f \in KeyFields : report[f] \in {Unset, ""}
       /\ report.raw_content.rows = <<>>)

\* The scan set a field that is not a key field, and None was returned.
C10_Witness ==
  /\ tmplPc = "returned"
  /\ tmplResult = "none"
  /\ row_idx > 0
  /\ \E f \in AssignedFields \ KeyFields : report[f] \notin {Unset, ""}

\* C16: every item a segmenter returns has the id "Q<n>", n its 1-based
\* position in the returned list; stated here for the LLM-assisted segmenter
\* of either client.
C16_IdsArePositional ==
  segPc = "returned" =>
    \A i \in 1..Len(result_items) : result_items[i].id = QId(i)

\* The text of every marker line up to the next marker line, in order.
RECURSIVE marker_texts(_, _)
marker_texts(lines, i) ==
  LET j == NextMarker(lines, i)
      b == NextMarker(lines, j + 1)
  IN IF j > Len(lines) THEN <<>>
     ELSE <<strip_lines(<<body_of(lines[j])>> \o SubSeq(lines, j + 1, b - 1))>>
            \o marker_texts(lines, b)

\* C17: the local segmenter splits at every marker line: the i-th marker's
\* text up to the next marker becomes the i-th item, with id Q<i>; the text
\* "Timu1:do X", "Timu2:do Y" with expected_count = 2 gives two items whose
\* questions are "do X" and "do Y".
C17_SplitsAtEveryMarker ==
  (localPc = "returned" /\ local_expected > 0) =>
    LET mt == marker_texts(content_text, 1)
    IN \A i \in 1..Min(Len(mt), local_expected) :
         local_items[i] = item_of(i, mt[i])

\* C18: in batch grading an item is matched to the element that carries its
\* id; the element at its position is used only when no element carries the
\* id, and an element carrying another input item's id is never used for it.
C18_NeverAnotherItemsElement ==
  (pc = "done" /\ cause = "" /\ content.kind = "list") =>
    \A i \in 1..Len(items) :
      LET e == aligned_obj(content.elems, items[i], i)
      IN /\ HasId(content.elems, items[i]) => e.id = items[i]
         /\ \A k \in 1..Len(items) : (e.isdict /\ e.id = items[k]) => k = i

\* C19: the result list is aligned with the input by position: the id of
\* result i is the id of input item i, for every answer of the model.
C19_ResultIdsAreItemIds ==
  pc = "done" =>
    \A i \in 1..Len(results) : results[i].id = items[i]

\* C20 as stated: the batch request is sent at most once and every per-item
\* request at most once, at most 1 + n calls for n items, for either client.
C20_AtMostOneCallPerRequest ==
  /\ Len(callLog) <= 1 + Len(items)
  /\ \A q \in 0..Len(items) : TriesMade(callLog, q) <= 1

\* The calls a client makes for one request: kimi_client tries the JSON
\* response mode and then the plain mode, deepseek_client makes one call.
CallsPerRequest == IF provider = "kimi" THEN 2 ELSE 1

\* C20, amended: deepseek_client sends every request at most once, at most
\* 1 + n calls; kimi_client sends a request a second time only after its
\* first call failed, at most 2 calls per request and 2 * (1 + n) in all.
\* No request is called again after a call of it was answered.
C20_BoundedCallsPerRequest ==
  /\ Len(callLog) <= CallsPerRequest * (1 + Len(items))
  /\ \A q \in 0..Len(items) : TriesMade(callLog, q) <= CallsPerRequest
  /\ \A k \in 1..Len(callLog) : \A k2 \in 1..Len(callLog) :
       (k < k2 /\ callLog[k].req = callLog[k2].req) => ~callLog[k].ok

\* Every request of a kimi run was called twice.
C20_Witness ==
  /\ provider = "kimi"
  /\ pc = "done"
  /\ Len(callLog) = 2 * (1 + Len(items))

\* A row the fallback reads as a class row: its label normalises to the
\* class label.
IsClassRow(r) == r # <<>> /\ r[1].text \in {ClassLabel, ClassLabelSpaced, ClassLine}

DocReturned == docPc \in {"returned", "segmented", "stopped"}

\* C11: parse_docx_to_report runs the label-scan fallback exactly when the
\* template extractor returned no match; the record the fallback returns for
\* a document holding a two-cell row [class label, "CS101"], in any table,
\* has the class field "CS101" unless a later class row overwrote it.
C11_FallbackIffNoMatch ==
  /\ docPc # "template" => (doc_path = "fallback" <=> ~tmpl_matched)
  /\ (fb_idx > 0 \/ docPc = "fallback") => ~tmpl_matched
  /\ (DocReturned /\ doc_path = "template") => (fb_idx = 0 /\ content_accumulator = <<>>)
  /\ (DocReturned /\ doc_path = "fallback") =>
       LET rows == all_rows(doc)
       IN \A k \in 1..Len(rows) :
            (rows[k] = ClassRow /\ \A j \in (k + 1)..Len(rows) : ~IsClassRow(rows[j]))
              => doc_report.class = "CS101"

\* The fallback returned the class of a two-cell class row that came after
\* another class row.
C11_Witness ==
  /\ docPc = "returned"
  /\ doc_path = "fallback"
  /\ doc_report.class = "CS101"
  /\ \E k \in 1..Len(all_rows(doc)) :
       /\ all_rows(doc)[k] = ClassRow
       /\ \E j \in 1..(k - 1) : all_rows(doc)[j] = ClassLineRow

\* C12: extraction never segments. The record parse_docx_to_report returns,
\* by the template path or the fallback path, has no items; items are there
\* only after the caller's segmentation step, and that step leaves the raw
\* content as it was.
C12_ExtractionNeverSegments ==
  /\ [](docPc \in {"template", "fallback", "returned", "stopped"}
          => doc_report.content_items = <<>>)
  /\ [][(docPc = "returned" /\ docPc' = "segmented") =>
          /\ doc_report'.raw_content = doc_report.raw_content
          /\ doc_report'.content_items # <<>>]_vars

\* Raw content recovered by the template path was segmented by the caller.
C12_Witness ==
  /\ docPc = "segmented"
  /\ doc_path = "template"
  /\ doc_report.raw_content.set
  /\ Len(doc_report.content_items) > 1

\* The text holds the label, as the writer's rows spell the labels.
Holds(label, text) ==
  \/ label = "grade" /\ text \in {GradeLabel, GradeLabelSpaced}
  \/ label = "date" /\ text \in {DateLabel, ExpDateLabel}

\* The first cell (from 1) of a row of two cells that holds the label, 0 if
\* none does.
LabelCell(r, label) ==
  IF Len(r) # 2 THEN 0
  ELSE IF Holds(label, r[1].text) THEN 1
  ELSE IF Holds(label, r[2].text) THEN 2
  ELSE 0

\* The first row (from 1) of the table with a label cell, 0 if there is none.
FirstLabelRow(table, label) ==
  LET rs == {i \in 1..Len(table) : LabelCell(table[i], label) # 0}
  IN IF rs = {} THEN 0 ELSE SetMin(rs)

\* The row with text in the cell that is not its label cell.
Filled_in(r, label, text) ==
  [r EXCEPT ![3 - LabelCell(r, label)] = [text |-> text, span |-> @.span]]

\* C13: every cell assignment of the writer, for the grade label and for the
\* date label, goes to a row of two logical columns that has the label in
\* one of them, leaves that label cell as it was and puts the value into the
\* other logical column, whether the label is in the first or in the last
\* column; no other row of the document changes in that step.
C13_WritesTheOtherColumn ==
  [][(wPc \in {"grade", "date"} /\ wdoc' # wdoc) =>
       LET table == wdoc[w_table]
           i == FirstLabelRow(table, wPc)
           text == IF wPc = "grade" THEN GradeText ELSE DateText
       IN /\ i # 0
          /\ wdoc'[w_table][i][LabelCell(table[i], wPc)] = table[i][LabelCell(table[i], wPc)]
          /\ wdoc' = [wdoc EXCEPT ![w_table][i] = Filled_in(table[i], wPc, text)]]_vars

\* A grade and a date were both written for a label in the last column.
C13_Witness ==
  /\ \E k \in 1..Len(writes) : writes[k].label = "grade" /\ writes[k].vis = 1
  /\ \E k \in 1..Len(writes) : writes[k].label = "date" /\ writes[k].vis = 1

\* The call returned true and no cell assignment raised.
WroteCleanly == wPc = "returned" /\ w_result /\ ~write_failed

\* The tables and rows of the document that are the row <<grade label, "">>,
\* the only row of their table with the grade label in a cell.
GradeRowsOf(d) ==
  {p \in {<<t, i>> : t \in 1..Len(d), i \in 1..MaxWriteRows} :
     /\ p[2] <= Len(d[p[1]])
     /\ d[p[1]][p[2]] = GradeRow
     /\ \A j \in 1..Len(d[p[1]]) :
          j # p[2] => \A v \in 1..Len(d[p[1]][j]) : ~Holds("grade", d[p[1]][j][v].text)}

C15_TrueOnlyAfterWriteAndSave ==
  /\ wPc \in {"open", "grade", "date", "save", "returned"}
  /\ saves <= 1
  /\ saves = 1 => writes # <<>> /\ disk = wdoc
  /\ saves = 0 => disk = original
  /\ wPc = "returned" =>
       /\ w_result => writes # <<>> /\ saves = 1
       /\ w_table = 0 => ~w_result
       /\ writes = <<>> => ~w_result
       /\ saves = 0 => ~w_result
  /\ wPc # "returned" => ~w_result

\* One cell assignment raised, another was made, and the document was saved:
\* the call returned true.
C15_Witness ==
  /\ wPc = "returned"
  /\ w_result
  /\ write_failed
  /\ saves = 1
  /\ disk # original

\* C21: in the deepseek segmenter an attempt whose parsed list is not empty
\* and shorter than expected_count ends the call in that attempt, with
\* exactly expected_count items, so that no further model call follows.
C21_ShortListRepairedInTheAttempt ==
  [][(/\ provider = "deepseek"
      /\ segPc = "loop"
      /\ attempt' = attempt + 1
      /\ lastAnswer'.kind = "list"
      /\ lastAnswer'.n > 0
      /\ lastAnswer'.n < expected_count)
     => segPc' = "returned" /\ Len(result_items') = expected_count]_vars

\* The field selected by a coordinate on the row of index ridx: one of the
\* fields of rows 0-4, or remarks, grade, signoff date after the anchor
\* ("" : none).
CoordinateField(ridx, k, anchor) ==
  IF header_field(ridx, k) # "" THEN header_field(ridx, k)
  ELSE IF anchor_field(ridx, k, anchor) \in {"remarks", "grade", "signoff_date"}
  THEN anchor_field(ridx, k, anchor)
  ELSE ""

\* The grid column (from 0) at which the logical cell j of the row starts.
RECURSIVE GridColumn(_, _)
GridColumn(r, j) == IF j <= 1 THEN 0 ELSE GridColumn(r, j - 1) + r[j - 1].span

\* C22 as stated: the coordinate that selects a field is the grid column of
\* the cell, every merged cell moving it on by its span: a cell that starts
\* at the grid column of a field gives that field its text.
C22_FieldsByGridColumn ==
  [][(tmplPc = "scan" /\ row_idx' = row_idx + 1) =>
       \A j \in 1..Len(row') :
         LET f == CoordinateField(row_idx, GridColumn(row', j), analys_row_idx)
         IN f # "" => report'[f] = strip_text(row'[j].text)]_vars

\* C22 amended: the index into row.cells moves on by the span that
\* _get_grid_span gives (the cell's grid_span, 1 when cells have no such
\* attribute) and the coordinate that selects a field moves on by 1 for each
\* cell visited: with grid_span a merged cell is visited once and the
\* coordinate counts logical cells; without it every grid column is visited
\* and the coordinate counts grid columns.
C22_FieldsByVisitedCell ==
  [][(tmplPc = "scan" /\ row_idx' = row_idx + 1) =>
       LET visited == IF has_grid_span THEN row' ELSE cells_of(row')
       IN \A k \in 1..Len(visited) :
            LET f == CoordinateField(row_idx, k - 1, analys_row_idx)
            IN f # "" => report'[f] = strip_text(visited[k].text)]_vars

\* Row 0 was a row whose first cell spans two grid columns, read with
\* grid_span: the second and third logical cells went to major and term.
C22_Witness ==
  /\ has_grid_span
  /\ row_idx = 1
  /\ row = MergedRow
  /\ report.college = "a"
  /\ report.major = "b"
  /\ report.term = "c"

\* A turn of the row loop of the template extractor.
RowScanned == tmplPc = "scan" /\ row_idx' = row_idx + 1

\* The row just scanned lies strictly between the opening row and the
\* anchor: the region was open before it, no anchor was set, and the row is
\* not the anchor.
RowBetween ==
  /\ content_started
  /\ analys_row_idx = <<>>
  /\ ~Contains(row_text_of(row'), AnchorMarker)

\* The walk of the rows as C23 has it: the region opens at the first row
\* with the content keyword, which adds nothing; it closes at the first later
\* row with the analysis keyword, whose index becomes the anchor and which
\* adds nothing; a row strictly between adds its text if that is not empty;
\* no other row adds anything, and a set anchor stays.
ContentWalk ==
  /\ RowScanned =>
       /\ content_started' = (content_started \/ Contains(row_text_of(row'), ContentMarker))
       /\ analys_row_idx' =
            IF content_started /\ analys_row_idx = <<>>
               /\ Contains(row_text_of(row'), AnchorMarker)
            THEN <<row_idx>> ELSE analys_row_idx
       /\ content_buffer' =
            IF RowBetween /\ row_text_of(row') # <<>> /\ row_text_of(row') # <<"">>
            THEN Append(content_buffer, row_text_of(row'))
            ELSE content_buffer
  /\ ~RowScanned => UNCHANGED <<content_started, analys_row_idx, content_buffer>>

\* The rows have been walked and the record is returned.
RowsOver == tmplPc = "scan" /\ tmplPc' = "returned"

\* C23 as stated: the walk above, and raw_content is exactly the blank-line
\* join of the texts added.
C23_ContentIsTheJoin ==
  [][/\ ContentWalk
     /\ (RowsOver /\ content_buffer # <<>>) =>
          report'.raw_content = [set |-> TRUE, rows |-> content_buffer]]_vars

\* C23 amended: the walk above, and raw_content is the blank-line join of
\* the texts added with the white space at its two ends stripped, so that
\* empty cells at the start of the first text and at the end of the last one
\* leave nothing in it; it is not set when no text was added.
C23_ContentIsTheStrippedJoin ==
  [][/\ ContentWalk
     /\ RowsOver =>
          report'.raw_content =
            IF content_buffer # <<>>
            THEN [set |-> TRUE, rows |-> strip_join(content_buffer)]
            ELSE NoRawContent]_vars

\* A table with an opening row, a row of two empty cells, the anchor and a
\* row after it: the text of the row between was added, and raw_content is
\* set to the empty text.
C23_Witness ==
  /\ tmplPc = "returned"
  /\ analys_row_idx # <<>>
  /\ row_idx > analys_row_idx[1] + 1
  /\ content_buffer = <<row_text_of(BlankPair)>>
  /\ report.raw_content = [set |-> TRUE, rows |-> <<>>]

\* The fields read at fixed offsets after the anchor.
AnchorFields == {"analysis", "exp_date", "remarks", "grade", "signoff_date"}

\* C24: an anchor is set only once a row with the content keyword has been
\* seen; while no anchor is set none of the five fields after the anchor
\* holds a value, so a table whose row with the analysis keyword has no row
\* with the content keyword before it never yields them; and a step that
\* assigns one of them is a turn on a row after the anchor row.
C24_AnchorFieldsNeedTheAnchor ==
  /\ [](~content_started => analys_row_idx = <<>>)
  /\ [](analys_row_idx = <<>> => \A f \in AnchorFields : report[f] = Unset)
  /\ [][\A f \in AnchorFields :
          report'[f] # report[f] =>
            /\ RowScanned
            /\ analys_row_idx # <<>>
            /\ row_idx > analys_row_idx[1]]_vars

\* A row with the analysis keyword was scanned in a table without a row with
\* the content keyword before it, and two more rows after it: no anchor, and
\* none of the five fields.
C24_Witness ==
  /\ tmplPc = "scan"
  /\ ~content_started
  /\ row_idx >= 3
  /\ report.college = AnchorMarker
  /\ row = ValueRow
  /\ analys_row_idx = <<>>
  /\ \A f \in AnchorFields : report[f] = Unset

\* The cells the while loop visits on a row: the logical cells with
\* grid_span, every grid column without it.
Visited(r) == IF has_grid_span THEN r ELSE cells_of(r)

\* The key field that the cell visited k-th (from 0) on the row of index
\* ridx is read into ("" : none): a field of rows 0-4 at its coordinate, the
\* analysis text and the experiment date at every cell of their rows.
KeyFieldRead(ridx, k, anchor) ==
  IF header_field(ridx, k) \in KeyFields THEN header_field(ridx, k)
  ELSE IF anchor_field(ridx, k, anchor) \in KeyFields THEN anchor_field(ridx, k, anchor)
  ELSE ""

\* Row 0 law: a first row with text in one of its first three cells makes the
\* extractor report a match, the three texts stored as college, major and
\* term; a key field that holds a value keeps it.
FirstRowMatches ==
  /\ [][(RowScanned /\ row_idx = 0) =>
          \A k \in 1..Len(Visited(row')) :
            k <= 3 => report'[header_field(0, k - 1)] = strip_text(Visited(row')[k].text)]_vars
  /\ [][\A f \in KeyFields : Filled(report[f]) => report'[f] = report[f]]_vars
  /\ []((tmplPc = "returned" /\ \E f \in {"college", "major", "term"} : Filled(report[f]))
          => tmplResult = "report")

\* C25 as stated: the row 0 law, and no match (the only way to the label
\* scan for a document with a table) only when every cell read into a key
\* field was empty: a turn that reads text into a key field leaves a key
\* field with a value.
C25_NoMatchOnlyIfKeyCellsEmpty ==
  /\ FirstRowMatches
  /\ [][RowScanned =>
          \A k \in 1..Len(Visited(row')) :
            (/\ KeyFieldRead(row_idx, k - 1, analys_row_idx) # ""
             /\ strip_text(Visited(row')[k].text) # "")
            => \E f \in KeyFields : Filled(report'[f])]_vars
  /\ []((tmplPc = "returned" /\ tmplResult = "none")
          => \A f \in KeyFields : ~Filled(report[f]))

\* C25 amended: the row 0 law, and no match only when every key field ends
\* empty and the stripped raw content is empty; a key field of rows 0-4 ends
\* as the text of the cell at its coordinate, the analysis text and the
\* experiment date as the text of the last cell visited on their rows, so
\* that text in an earlier cell of those rows does not make a match.
C25_NoMatchOnlyIfKeyFieldsEndEmpty ==
  /\ FirstRowMatches
  /\ [][RowScanned =>
          \A k \in 1..Len(Visited(row')) :
            LET f == KeyFieldRead(row_idx, k - 1, analys_row_idx)
            IN (f # "" /\ (f \in {"analysis", "exp_date"} => k = Len(Visited(row'))))
               => report'[f] = strip_text(Visited(row')[k].text)]_vars
  /\ []((tmplPc = "returned" /\ tmplResult = "none")
          => /\ \A f \in KeyFields : ~Filled(report[f])
             /\ report.raw_content.rows = <<>>)

\* The row after the anchor had text in its first cell and none in its last:
\* the analysis text ended empty and no match was reported.
C25_Witness ==
  /\ tmplPc = "returned"
  /\ tmplResult = "none"
  /\ analys_row_idx # <<>>
  /\ row = TextBlankRow
  /\ row_idx = analys_row_idx[1] + 2
  /\ report.analysis = ""

\* The label and value of the rows of a document, as the label scan reads
\* them: the field a canonical label names, "content" for the content label,
\* "" for a row with another label or with no label and value at all.
FieldOfRow(r) ==
  CASE r \in {ClassRow, ClassRowSpaced, ClassLineRow} -> "class"
    [] r = AnchorRow -> "analysis"
    [] r \in {ContentPairRow, ContentBlankRow} -> "content"
    [] OTHER -> ""

ValueOfRow(r) ==
  CASE r = ClassRow -> "CS101"
    [] r = ClassRowSpaced -> "CS102"
    [] r = ClassLineRow -> "CS103"
    [] r = AnchorRow -> "b"
    [] r = ContentPairRow -> LineX
    [] OTHER -> ""

\* A turn of the fallback's row loop.
FallbackTurn == docPc = "fallback" /\ fb_idx' = fb_idx + 1

\* The rows with the label of field f among the first n rows.
RowsOf(f, n) == {k \in 1..n : FieldOfRow(all_rows(doc)[k]) = f}

\* C26: in the label scan, over the rows of all tables in order, a row with
\* a canonical label sets that field to the row's value and nothing else; a
\* row with the content label adds its value, if not empty, to the content
\* accumulator and sets no field; any other row changes nothing; so a field
\* holds the value of the last row with its label, and is unset without one.
C26_LabelScanLastWins ==
  /\ [][FallbackTurn =>
          LET r == all_rows(doc)[fb_idx + 1]
              f == FieldOfRow(r)
          IN IF f = "content"
             THEN /\ doc_report' = doc_report
                  /\ content_accumulator' =
                       IF ValueOfRow(r) # "" THEN Append(content_accumulator, <<ValueOfRow(r)>>)
                       ELSE content_accumulator
             ELSE IF f # ""
             THEN /\ doc_report' = [doc_report EXCEPT ![f] = ValueOfRow(r)]
                  /\ content_accumulator' = content_accumulator
             ELSE /\ doc_report' = doc_report
                  /\ content_accumulator' = content_accumulator]_vars
  /\ []((docPc = "fallback" \/ (DocReturned /\ doc_path = "fallback")) =>
          \A f \in {"class", "analysis"} :
            doc_report[f] =
              IF RowsOf(f, fb_idx) = {} THEN Unset
              ELSE ValueOfRow(all_rows(doc)[CHOOSE k \in RowsOf(f, fb_idx) :
                                              \A j \in RowsOf(f, fb_idx) : j <= k]))

\* The label scan returned after two class rows with a content row whose
\* value is empty between them: the class is that of the second, and there
\* is no raw content.
C26_Witness ==
  /\ docPc = "returned"
  /\ doc_path = "fallback"
  /\ all_rows(doc) = <<ClassRow, ContentBlankRow, ClassRowSpaced>>
  /\ doc_report.class = "CS102"
  /\ content_accumulator = <<>>
  /\ doc_report.raw_content = NoRawContent

\* C27: storing the average changes only the grade: the JSON file written by
\* the store step is the file as it was before grading, scalar fields, raw
\* content and every item's id, title, requirement, method and answer, with
\* the grade set to the average.
C27_StoreChangesOnlyTheGrade ==
  [][(auto_pc = "scored" /\ json_file' # json_file) =>
       json_file'.obj = [json_file.obj EXCEPT !.grade = avg[1]]]_vars

\* C28: no document found by an auto-dir run is ever changed by it: each
\* holds what it held when the run started.
C28_SourcesAreNeverModified ==
  dir_pc # "idle" =>
    \A k \in 1..Len(dir_docs) : dir_files[dir_docs[k]] = Source(dir_docs[k])

\* C29: an auto run that was refused nothing by its surroundings and whose
\* grading gave an average returns 0, with the copy of the document in the
\* output directory, whatever the output directory.
C29_AverageIsWrittenBack ==
  (auto_pc = "returned" /\ avg # <<>> /\ ~io_failed) =>
    /\ rc = 0
    /\ files[<<dir_of_out(out_choice), TheDoc[2]>>].present
    /\ files[<<dir_of_out(out_choice), TheDoc[2]>>].of = TheDoc

\* C30: auto-dir handles the documents found one after another in the order
\* of the list, each once, whatever the outcome of the others; every turn
\* adds one to exactly one of total and failed, so that at every turn's end
\* total + failed is the number of documents handled, and at the end of the
\* loop the number of documents found.
C30_EveryDocumentCountedOnce ==
  /\ [](dir_pc # "idle" =>
          /\ total + failed = dir_idx
          /\ Len(handled) = dir_idx
          /\ \A k \in 1..Len(handled) : handled[k].doc = dir_docs[k]
          /\ dir_pc = "done" => total + failed = Len(dir_docs))
  /\ [][dir_idx' # dir_idx =>
          /\ dir_idx' = dir_idx + 1
          /\ <<total', failed'>> \in {<<total + 1, failed>>, <<total, failed + 1>>}]_vars
  /\ [][(dir_pc \in {"loop", "copy"} /\ dir_pc' = "done") => dir_idx = Len(dir_docs)]_vars

\* A run over three documents ended with a failed copy, an exception and a
\* document written back.
C30_Witness ==
  /\ dir_pc = "done"
  /\ Len(dir_docs) = 3
  /\ total = 1
  /\ failed = 2
  /\ \E k \in 1..3 : handled[k].outcome = "copy failed"
  /\ \E k \in 1..3 : handled[k].outcome = "exception"

====
